---- MODULE Spec2Model ----
(***************************************************************************)
(* ShapesApp (Assignment Files/Shapes/ShapesApp.cpp): the frame-resource   *)
(* ring, the CPU/GPU fence handshake, the per-object / per-pass constant   *)
(* buffers and the CBV descriptor heap arithmetic.                         *)
(*                                                                         *)
(* Spec     the application: Initialize, then the frame loop Update/Draw   *)
(*          running against a GPU that retires fence values in submission  *)
(*          order, with world-matrix changes arriving between frames.      *)
(* SpecInput the frame loop of a static scene with the pointer handlers    *)
(*          OnMouseDown, OnMouseUp and OnMouseMove dispatched between      *)
(*          frames.                                                        *)
(* SpecCbv  the descriptor-heap arithmetic of BuildDescriptorHeaps,        *)
(*          BuildConstantBufferViews, Draw and DrawRenderItems for every   *)
(*          object count up to MaxObjCount.                                *)
(* SpecGeo  BuildShapeGeometry and BuildRenderItems on shape meshes.       *)
(* SpecWindow the frame loop with pointer and resize messages and any      *)
(*          state of the '1' key.                                          *)
(* SpecLife the life of the process: Initialize succeeding or failing,     *)
(*          frames, and the destruction of the application object.         *)
(* SpecCamera the pointer handlers driving the orbit camera.               *)
(* SpecKeys the frame loop with the '1' key pressed and released.          *)
(* SpecInit Initialize statement by statement, then the frame loop.        *)
(* SpecFair the frame loop under weak fairness of the thread's steps and   *)
(*          of the GPU.                                                    *)
(***************************************************************************)
EXTENDS Integers, Sequences, FiniteSets

\* ---------------------------------------------------------------- constants

\* const int gNumFrameResources = 3;
gNumFrameResources == 3

\* ------------------------------------------------------------------- bounds

\* Render items BuildRenderItems creates (the scene has 22, all built alike).
NumRitems == 2
\* Frames (Update calls) a behaviour runs.
MaxFrames == 6
\* World-matrix changes a behaviour makes after Initialize.
MaxChanges == 2
\* Largest object count SpecCbv draws (the scene has 22 render items).
MaxObjCount == 22
\* Pointer events a behaviour of SpecInput delivers.
MaxMouseEvents == 1
\* Pointer events a behaviour of SpecCamera delivers.
MaxCameraEvents == 3

\* World matrices, as 2x2 row-major tuples: the identity and a non-symmetric one.
Identity4x4 == <<1, 0, 0, 1>>
WorldValues == {Identity4x4, <<1, 0, 5, 1>>}
\* The content of upload-buffer memory nothing has been copied into yet.
Uninit == <<>>

VARIABLES
    pc,                       \* where the application thread is
    mAllRitems,               \* sequence of render items
    mOpaqueRitems,            \* sequence of positions in mAllRitems
    mFrameResources,          \* sequence of frame resources (slot f at f+1)
    mCurrFrameResourceIndex,
    mCurrentFence,            \* CPU-side fence counter
    completed,                \* mFence->GetCompletedValue()
    mPassCbvOffset,
    mCbvHeap,                 \* descriptor heap: sequence, offset k at k+1
    bound,                    \* descriptor offsets the last Draw bound
    upd,                      \* what the last Update observed and wrote
    slotHist,                 \* active slot of every frame so far
    sinceChange,              \* per item: Updates since its World last changed
    changes,                  \* World changes made so far
    mTheta, mPhi, mRadius,    \* orbit camera (see the camera units below)
    mLastMousePos,
    mEyePos,
    mouseEvents,              \* window messages (pointer, resize) delivered so far
    cbv,                      \* SpecCbv: the descriptor heap of a scene of any size
    geo,                      \* SpecGeo: BuildShapeGeometry and BuildRenderItems
    mProj,                    \* projection matrix, as the aspect ratio it encodes
    mClientSize,              \* D3DApp::mClientWidth, mClientHeight
    keyStates,                \* values GetAsyncKeyState('1') may return
    mIsWireframe,
    mCurrFrameResource,       \* slot pointed to, -1 for nullptr
    md3dDevice,
    initResult,               \* how Initialize ended
    lastMessage,              \* the window message handled last
    queue,                    \* mCommandQueue: what the GPU has not executed yet
    mCommandList,             \* the command list, as last recorded
    drawCalls                 \* the queue and fence calls of the last Draw, in order

vars == <<pc, mAllRitems, mOpaqueRitems, mFrameResources, mCurrFrameResourceIndex,
          mCurrentFence, completed, mPassCbvOffset, mCbvHeap, bound, upd,
          slotHist, sinceChange, changes, mTheta, mPhi, mRadius, mLastMousePos,
          mEyePos, mouseEvents, cbv, geo, mProj, mClientSize, keyStates,
          mIsWireframe, mCurrFrameResource, md3dDevice, initResult, lastMessage,
          queue, mCommandList, drawCalls>>

\* The state of the window, the keyboard and the process that Update leaves alone.
extra == <<geo, mProj, mClientSize, keyStates, md3dDevice, initResult>>

camera == <<mTheta, mPhi, mRadius, mLastMousePos, mouseEvents, lastMessage>>

\* The command queue, the command list and the record of the last Draw.
gfx == <<queue, mCommandList, drawCalls>>

Slots == 0 .. gNumFrameResources - 1

Min(a, b) == IF a < b THEN a ELSE b

\* -------------------------------------------------------- pure computations

\* XMMatrixTranspose
XMMatrixTranspose(m) == <<m[1], m[3], m[2], m[4]>>

\* Mutants of NextFrameResourceIndex: a ring one slot short; a step of two.
NextFrameResourceIndexShort(i) == (i + 1) % (gNumFrameResources - 1)
NextFrameResourceIndexBy2(i) == (i + 2) % gNumFrameResources

\* mCurrFrameResourceIndex = (mCurrFrameResourceIndex + 1) % gNumFrameResources
NextFrameResourceIndex(i) == (i + 1) % gNumFrameResources

\* Mutants of MustWait: waiting one fence value too few; waiting on equality.
MustWaitOffByOne(fence, done) == fence # 0 /\ done + 1 < fence
MustWaitOnEqual(fence, done) == fence # 0 /\ done <= fence

\* mCurrFrameResource->Fence != 0 && GetCompletedValue() < mCurrFrameResource->Fence
MustWait(fence, done) == fence # 0 /\ done < fence

\* UINT numDescriptors = (objCount + 1) * gNumFrameResources
NumDescriptors(objCount) == (objCount + 1) * gNumFrameResources

\* Mutant of PassCbvOffset: the pass block placed one frame resource early.
PassCbvOffsetShort(objCount) == objCount * (gNumFrameResources - 1)

\* mPassCbvOffset = objCount * gNumFrameResources
PassCbvOffset(objCount) == objCount * gNumFrameResources

\* Mutant of ObjHeapIndex: the frame resource left out of the offset.
ObjHeapIndexNoFrame(frameIndex, objCount, i) == i

\* int heapIndex = frameIndex * objCount + i          (BuildConstantBufferViews)
ObjHeapIndex(frameIndex, objCount, i) == frameIndex * objCount + i

\* int heapIndex = mPassCbvOffset + frameIndex        (BuildConstantBufferViews)
PassHeapIndex(passCbvOffset, frameIndex) == passCbvOffset + frameIndex

\* Mutant of ObjCbvIndex: the per-frame stride counts the pass descriptor too.
ObjCbvIndexStride(frameIndex, objCount, objCBIndex) ==
    frameIndex * (objCount + 1) + objCBIndex

\* UINT cbvIndex = mCurrFrameResourceIndex * mOpaqueRitems.size() + ri->ObjCBIndex
ObjCbvIndex(frameIndex, objCount, objCBIndex) == frameIndex * objCount + objCBIndex

\* int passCbvIndex = mPassCbvOffset + mCurrFrameResourceIndex
PassCbvIndex(passCbvOffset, frameIndex) == passCbvOffset + frameIndex

\* A descriptor: which buffer of which frame resource it views, and the element.
NoDescriptor == [kind |-> "none", frame |-> -1, elem |-> -1]
ObjDescriptor(f, i) == [kind |-> "object", frame |-> f, elem |-> i]
PassDescriptor(f) == [kind |-> "pass", frame |-> f, elem |-> 0]

\* The CreateConstantBufferView calls of the object loop of
\* BuildConstantBufferViews, in loop order: frameIndex outer, i inner.
ObjectViewWrites(objCount) ==
    [k \in 1 .. gNumFrameResources * objCount |->
        LET frameIndex == (k - 1) \div objCount
            i == (k - 1) % objCount
        IN [heapIndex |-> ObjHeapIndex(frameIndex, objCount, i),
            view |-> ObjDescriptor(frameIndex, i)]]

\* The CreateConstantBufferView calls of the pass loop.
PassViewWrites(passCbvOffset) ==
    [k \in 1 .. gNumFrameResources |->
        [heapIndex |-> PassHeapIndex(passCbvOffset, k - 1),
         view |-> PassDescriptor(k - 1)]]

\* The heap after the calls `writes`, in order: an entry holds the view of the
\* last call that addressed it, n counts the calls per entry, and a call whose
\* handle lies beyond the heap writes no entry of it and is counted as lost.
CreateConstantBufferViews(heap, writes) ==
    LET hits(j) == {w \in DOMAIN writes : writes[w].heapIndex + 1 = j}
        last(S) == CHOOSE w \in S : \A v \in S : v <= w
    IN [at |-> [j \in DOMAIN heap.at |->
                   IF hits(j) = {} THEN heap.at[j] ELSE writes[last(hits(j))].view],
        n |-> [j \in DOMAIN heap.n |-> heap.n[j] + Cardinality(hits(j))],
        lost |-> heap.lost + Cardinality({w \in DOMAIN writes :
                                             writes[w].heapIndex + 1 \notin DOMAIN heap.at})]

\* BuildDescriptorHeaps: a heap of numDescriptors empty entries.
NewHeap(objCount) ==
    [at |-> [k \in 1 .. NumDescriptors(objCount) |-> NoDescriptor],
     n |-> [k \in 1 .. NumDescriptors(objCount) |-> 0],
     lost |-> 0]

BuildConstantBufferViews(heap, objCount, passCbvOffset) ==
    CreateConstantBufferViews(heap, ObjectViewWrites(objCount)
                                        \o PassViewWrites(passCbvOffset))

EmptyHeap == [at |-> <<>>, n |-> <<>>, lost |-> 0]


\* ------------------------------------------------------------------- camera
\* Angles are kept exactly as a * (pi/720) + b * 0.1 radians, written
\* [a |-> a, b |-> b]: one pixel of pointer travel is a quarter of a degree,
\* pi/720, and the clamp bounds of mPhi are 0.1 and pi - 0.1.  mRadius is kept
\* in units of 0.05, the travel of one pixel.

\* mTheta = 1.5f*XM_PI, mPhi = 0.2f*XM_PI, mRadius = 15.0f
InitTheta == [a |-> 1080, b |-> 0]
InitPhi == [a |-> 144, b |-> 0]
InitRadius == [u |-> 300]

\* 0.1f and MathHelper::Pi - 0.1f
PhiMin == [a |-> 0, b |-> 1]
PhiMax == [a |-> 720, b |-> -1]
\* 5.0f and 150.0f
RadiusMin == [u |-> 100]
RadiusMax == [u |-> 3000]

\* x < y for angles: a * pi/720 < b / 10, decided with pi as 355/113.
AngleLess(x, y) ==
    LET a == x.a - y.a
        b == y.b - x.b
    IN IF a = 0 THEN 0 < b ELSE a * 355 < 72 * b * 113

\* Mutant of ClampAngle: no upper limit.
ClampAngleLowOnly(x, low, high) == IF AngleLess(x, low) THEN low ELSE x

\* MathHelper::Clamp(x, low, high) = x < low ? low : (x > high ? high : x)
ClampAngle(x, low, high) ==
    IF AngleLess(x, low) THEN low ELSE IF AngleLess(high, x) THEN high ELSE x

ClampRadius(x, low, high) ==
    IF x.u < low.u THEN low ELSE IF x.u > high.u THEN high ELSE x

\* Pointer positions the events carry, and the button states.
MouseCoords == {0, 200}
MousePoints == [x : MouseCoords, y : MouseCoords]
MK_LBUTTON == "MK_LBUTTON"
MK_RBUTTON == "MK_RBUTTON"
ButtonStates == SUBSET {MK_LBUTTON, MK_RBUTTON}

\* POINT mLastMousePos; has no initializer: its value is indeterminate until
\* OnMouseDown or OnMouseMove stores one.
Indeterminate == [x |-> 0, y |-> 0, stored |-> FALSE]

\* A window message: its kind and, for a pointer move, the buttons held.
Message(kind, btnState) == [kind |-> kind, btnState |-> btnState]

\* Coordinates of the pointer messages of SpecCamera.
CameraCoords == {0, 200, 3000}
CameraPoints == [x : CameraCoords, y : CameraCoords]

\* mEyePos after UpdateCamera: the point with these spherical coordinates.
EyePos(radius, phi, theta) == [r |-> radius, phi |-> phi, theta |-> theta]

\* ------------------------------------------------------- objects and buffers

\* Mutant of RenderItem: one frame resource too few is marked dirty.
RenderItemDirtyShort(world, objIndex) ==
    [World |-> world, NumFramesDirty |-> gNumFrameResources - 1,
     ObjCBIndex |-> objIndex]

\* RenderItem: World, NumFramesDirty = gNumFrameResources, ObjCBIndex.
RenderItem(world, objIndex) ==
    [World |-> world, NumFramesDirty |-> gNumFrameResources, ObjCBIndex |-> objIndex]

\* Mutant of BuildRenderItems: objIndex is not incremented.
RECURSIVE BuildRenderItemsNoIncrement(_, _, _)
BuildRenderItemsNoIncrement(items, worlds, objIndex) ==
    IF Len(items) >= Len(worlds) THEN items
    ELSE BuildRenderItemsNoIncrement(
             Append(items, RenderItem(worlds[Len(items) + 1], objIndex)),
             worlds, objIndex)

\* BuildRenderItems: one stanza per item, ObjCBIndex = objIndex++, push_back.
RECURSIVE BuildRenderItems(_, _, _)
BuildRenderItems(items, worlds, objIndex) ==
    IF objIndex >= Len(worlds) THEN items
    ELSE BuildRenderItems(Append(items, RenderItem(worlds[objIndex + 1], objIndex)),
                          worlds, objIndex + 1)

\* for (auto& e : mAllRitems) mOpaqueRitems.push_back(e.get());
BuildOpaqueRitems(items) == [k \in 1 .. Len(items) |-> k]

\* FrameResource(device, passCount = 1, objectCount): Fence 0, fresh buffers.
FrameResource(objectCount) ==
    [Fence |-> 0,
     ObjectCB |-> [k \in 1 .. objectCount |-> Uninit],
     PassCB |-> Uninit]

\* BuildFrameResources: gNumFrameResources of them, sized by mAllRitems.size().
BuildFrameResources(objectCount) ==
    [k \in 1 .. gNumFrameResources |-> FrameResource(objectCount)]

\* UploadBuffer::CopyData(elementIndex, data)
CopyData(buffer, elementIndex, data) ==
    IF elementIndex + 1 \in DOMAIN buffer
    THEN [buffer EXCEPT ![elementIndex + 1] = data]
    ELSE buffer

\* Mutant of UpdateObjectCBs: the dirty test dropped, every item is copied.
RECURSIVE UpdateObjectCBsAlways(_, _)
UpdateObjectCBsAlways(st, k) ==
    IF k > Len(st.items) THEN st
    ELSE LET e == st.items[k]
         IN UpdateObjectCBsAlways(
                [items |-> [st.items EXCEPT ![k].NumFramesDirty =
                                IF @ > 0 THEN @ - 1 ELSE @],
                 cb |-> CopyData(st.cb, e.ObjCBIndex, XMMatrixTranspose(e.World)),
                 written |-> Append(st.written, e.ObjCBIndex)],
                k + 1)

\* The loop of UpdateObjectCBs over mAllRitems, from item k on.
\* st = [items, cb, written]: the render items, currObjectCB, elements written.
RECURSIVE UpdateObjectCBs(_, _)
UpdateObjectCBs(st, k) ==
    IF k > Len(st.items) THEN st
    ELSE LET e == st.items[k]
         IN IF e.NumFramesDirty > 0
            THEN UpdateObjectCBs(
                     [items |-> [st.items EXCEPT ![k].NumFramesDirty = @ - 1],
                      cb |-> CopyData(st.cb, e.ObjCBIndex, XMMatrixTranspose(e.World)),
                      written |-> Append(st.written, e.ObjCBIndex)],
                     k + 1)
            ELSE UpdateObjectCBs(st, k + 1)

\* mMainPassCB as UpdateMainPassCB fills it in frame number `frame`.
MainPassCB(eyePos, frame) ==
    [EyePosW |-> eyePos, TotalTime |-> frame, Proj |-> mProj,
     RenderTargetSize |-> mClientSize]

\* FlushCommandQueue: signal a fresh fence value and block until it is reached.
FlushCommandQueue(fence) == fence + 1

NoUpdate ==
    [slot |-> -1, entryFence |-> 0, entryDone |-> 0, blocked |-> FALSE,
     wrote |-> FALSE, writeDone |-> 0, objWrites |-> <<>>, passWrites |-> 0]

NoBinding == [pass |-> -1, obj |-> <<>>]

CbvIdle ==
    [pc |-> "idle", objCount |-> 0, heap |-> EmptyHeap, mPassCbvOffset |-> 0,
     frame |-> -1, bound |-> NoBinding]

\* ------------------------------------------------------------ command queue

\* D3DApp::mDirectCmdListAlloc, the allocator of the initialization commands;
\* the allocator of frame resource f is written f, and -1 stands for none.
mDirectCmdListAlloc == -2

\* What mCommandQueue holds: a submitted command list with its allocator and
\* the descriptor tables its draw calls use, a Present, or a fence Signal.
ListEntry(list) ==
    [kind |-> "list", alloc |-> list.alloc, draws |-> list.draws, value |-> 0]
PresentEntry == [kind |-> "present", alloc |-> -1, draws |-> NoBinding, value |-> 0]
SignalEntry(value) ==
    [kind |-> "signal", alloc |-> -1, draws |-> NoBinding, value |-> value]

\* mCommandList as D3DApp creates it: closed, nothing recorded.
NoCommandList == [alloc |-> -1, pso |-> "none", draws |-> NoBinding, closed |-> TRUE]

\* mCommandList after Initialize: the closed list of the upload commands,
\* Reset(mDirectCmdListAlloc.Get(), nullptr).
InitCommandList ==
    [alloc |-> mDirectCmdListAlloc, pso |-> "none", draws |-> NoBinding,
     closed |-> TRUE]

\* Mutant of PipelineState: always the solid pipeline.
PipelineStateSolid(isWireframe) == "opaque"

\* Draw: mPSOs["opaque_wireframe"] if mIsWireframe, else mPSOs["opaque"].
PipelineState(isWireframe) == IF isWireframe THEN "opaque_wireframe" ELSE "opaque"

\* ----------------------------------------------------------------- geometry
\* BuildShapeGeometry concatenates the meshes of the shapes, in this order,
\* into one vertex buffer and one 16-bit index buffer.

ShapeNames ==
    <<"box", "grid", "sphere", "cylinder", "pyramid", "wedge", "cone", "halfCone",
      "prism", "diamond">>

\* GeometryGenerator::MeshData: the number of vertices and the 32-bit indices.
\* A three-vertex mesh, and one whose last index needs 17 bits.
SmallMesh == [Vertices |-> 3, Indices32 |-> <<0, 1, 2>>]
LargeMesh == [Vertices |-> 65537, Indices32 |-> <<0, 1, 2, 0, 2, 65536>>]
MeshValues == {SmallMesh, LargeMesh}

\* Values a std::uint16_t index holds.
UINT16_COUNT == 65536

RECURSIVE VertexOffset(_, _)
\* boxVertexOffset = 0; gridVertexOffset = box.Vertices.size(); ...
VertexOffset(meshes, k) ==
    IF k = 1 THEN 0 ELSE VertexOffset(meshes, k - 1) + meshes[k - 1].Vertices

RECURSIVE IndexOffsetOfVertices(_, _)
\* Mutant of IndexOffset: the index offsets accumulated from the vertex counts.
IndexOffsetOfVertices(meshes, k) ==
    IF k = 1 THEN 0
    ELSE IndexOffsetOfVertices(meshes, k - 1) + meshes[k - 1].Vertices

RECURSIVE IndexOffset(_, _)
\* boxIndexOffset = 0; gridIndexOffset = box.Indices32.size(); ...
IndexOffset(meshes, k) ==
    IF k = 1 THEN 0 ELSE IndexOffset(meshes, k - 1) + Len(meshes[k - 1].Indices32)

\* The SubmeshGeometry of the k-th shape.
SubmeshGeometry(meshes, k) ==
    [IndexCount |-> Len(meshes[k].Indices32),
     StartIndexLocation |-> IndexOffset(meshes, k),
     BaseVertexLocation |-> VertexOffset(meshes, k)]

\* A value-initialized SubmeshGeometry.
DefaultSubmesh == [IndexCount |-> 0, StartIndexLocation |-> 0, BaseVertexLocation |-> 0]

RECURSIVE TotalVertexCount(_, _)
\* totalVertexCount, summed over the first k shapes.
TotalVertexCount(meshes, k) ==
    IF k = 0 THEN 0 ELSE TotalVertexCount(meshes, k - 1) + meshes[k].Vertices

\* The copy loops fill `vertices` shape after shape: the run of each shape is
\* recorded as the position k reached when its loop starts and its length.
VertexRuns(meshes) ==
    [k \in 1 .. Len(meshes) |->
        [shape |-> ShapeNames[k], first |-> TotalVertexCount(meshes, k - 1),
         count |-> meshes[k].Vertices]]

\* MeshData::GetIndices16: every 32-bit index narrowed to std::uint16_t.
GetIndices16(mesh) ==
    [i \in 1 .. Len(mesh.Indices32) |-> mesh.Indices32[i] % UINT16_COUNT]

RECURSIVE InsertIndices(_, _)
\* indices.insert(indices.end(), ...GetIndices16()...) for the first k shapes.
InsertIndices(meshes, k) ==
    IF k = 0 THEN <<>> ELSE InsertIndices(meshes, k - 1) \o GetIndices16(meshes[k])

\* geo->DrawArgs["box"] = boxSubmesh; ...
DrawArgs(meshes) ==
    [name \in {ShapeNames[k] : k \in 1 .. Len(meshes)} |->
        SubmeshGeometry(meshes, CHOOSE k \in 1 .. Len(meshes) : ShapeNames[k] = name)]

\* The MeshGeometry BuildShapeGeometry stores as mGeometries["shapeGeo"].
BuildShapeGeometry(meshes) ==
    [DrawArgs |-> DrawArgs(meshes),
     vertices |-> VertexRuns(meshes),
     totalVertexCount |-> TotalVertexCount(meshes, Len(meshes)),
     indices |-> InsertIndices(meshes, Len(meshes)),
     IndexFormat |-> "DXGI_FORMAT_R16_UINT",
     IndexBufferByteSize |-> 2 * Len(InsertIndices(meshes, Len(meshes)))]

\* Shape names a render item may be built with: two that BuildShapeGeometry
\* stores and one that it does not.
LookupNames == {"box", "diamond", "crate"}

\* Geo->DrawArgs[name] of std::unordered_map: the element stored under name,
\* a value-initialized element inserted under it first if there is none.
DrawArgsInsert(drawArgs, name) ==
    [n \in DOMAIN drawArgs \cup {name} |->
        IF n \in DOMAIN drawArgs THEN drawArgs[n] ELSE DefaultSubmesh]

\* The render item BuildRenderItems makes for the shape called name.
ShapeRenderItem(drawArgs, name, objIndex) ==
    [ObjCBIndex |-> objIndex,
     Shape |-> name,
     IndexCount |-> DrawArgsInsert(drawArgs, name)[name].IndexCount,
     StartIndexLocation |-> DrawArgsInsert(drawArgs, name)[name].StartIndexLocation,
     BaseVertexLocation |-> DrawArgsInsert(drawArgs, name)[name].BaseVertexLocation]

RECURSIVE BuildShapeRenderItems(_, _, _)
\* BuildRenderItems for the shapes called names[k], names[k + 1], ...: st holds
\* the DrawArgs map and the items pushed so far; objIndex++ numbers them.
BuildShapeRenderItems(st, names, k) ==
    IF k > Len(names) THEN st
    ELSE BuildShapeRenderItems(
             [DrawArgs |-> DrawArgsInsert(st.DrawArgs, names[k]),
              items |-> Append(st.items,
                               ShapeRenderItem(st.DrawArgs, names[k], Len(st.items)))],
             names, k + 1)

NoGeometry ==
    [DrawArgs |-> <<>>, vertices |-> <<>>, totalVertexCount |-> 0, indices |-> <<>>,
     IndexFormat |-> "DXGI_FORMAT_UNKNOWN", IndexBufferByteSize |-> 0]

GeoIdle == [pc |-> "idle", meshes |-> <<>>, store |-> NoGeometry, items |-> <<>>]

\* ------------------------------------------------------------------- window

\* D3DApp::mClientWidth x mClientHeight before any resize, and sizes a resize
\* delivers.
InitClientSize == <<800, 600>>
ClientSizes == {<<800, 600>>, <<1024, 768>>, <<1280, 720>>}

RECURSIVE GCD(_, _)
GCD(a, b) == IF b = 0 THEN a ELSE GCD(b, a % b)

\* D3DApp::AspectRatio: mClientWidth / mClientHeight, as a reduced fraction.
AspectRatio(size) ==
    <<size[1] \div GCD(size[1], size[2]), size[2] \div GCD(size[1], size[2])>>

\* Mutant of PerspectiveFovLH: the projection of a square viewport.
PerspectiveFovLHSquare(aspect) == [identity |-> FALSE, aspect |-> <<1, 1>>]

\* XMMatrixPerspectiveFovLH(0.25f*MathHelper::Pi, aspect, 1.0f, 1000.0f)
PerspectiveFovLH(aspect) == [identity |-> FALSE, aspect |-> aspect]

\* XMFLOAT4X4 mProj = MathHelper::Identity4x4();
IdentityProj == [identity |-> TRUE, aspect |-> <<1, 1>>]

\* GetAsyncKeyState: bit 15 is set while the key is down, bit 0 if it was
\* pressed since the previous call.
KEY_UP == 0
KEY_DOWN_BIT == 32768
KeyStates == {KEY_UP, 1, KEY_DOWN_BIT, KEY_DOWN_BIT + 1}

\* Mutant of OnKeyboardInput: any set bit of the key state taken as "down".
OnKeyboardInputAnyBit(keyState) == keyState # 0

\* OnKeyboardInput: the value mIsWireframe takes,
\* GetAsyncKeyState('1') & 0x8000.
OnKeyboardInput(keyState) == (keyState \div KEY_DOWN_BIT) % 2 = 1

\* --------------------------------------------------------------------- Init

\* The application object after its constructor.
Constructed ==
    /\ pc = "constructed"
    /\ mAllRitems = <<>>
    /\ mOpaqueRitems = <<>>
    /\ mFrameResources = <<>>
    /\ mCurrFrameResourceIndex = 0
    /\ mCurrentFence = 0
    /\ completed = 0
    /\ mPassCbvOffset = 0
    /\ mCbvHeap = EmptyHeap
    /\ bound = NoBinding
    /\ upd = NoUpdate
    /\ slotHist = <<>>
    /\ sinceChange = <<>>
    /\ changes = 0
    /\ mTheta = InitTheta
    /\ mPhi = InitPhi
    /\ mRadius = InitRadius
    /\ mLastMousePos = Indeterminate
    /\ mEyePos = EyePos([u |-> 0], [a |-> 0, b |-> 0], [a |-> 0, b |-> 0])
    /\ mouseEvents = 0
    /\ lastMessage = Message("none", {})
    /\ mProj = IdentityProj
    /\ mClientSize = InitClientSize
    /\ mIsWireframe = FALSE
    /\ mCurrFrameResource = -1
    /\ md3dDevice = "nullptr"
    /\ initResult = "none"
    /\ queue = <<>>
    /\ mCommandList = NoCommandList
    /\ drawCalls = <<>>

\* The '1' key is up throughout.
Init ==
    /\ Constructed
    /\ cbv = CbvIdle
    /\ geo = GeoIdle
    /\ keyStates = {KEY_UP}

\* ------------------------------------------------------------------ actions

\* Mutant of AfterInitialize: WinMain enters Run whatever Initialize did.
AfterInitializeRuns(result) == "update"

\* WinMain: Run if Initialize returned true; otherwise, and when Initialize
\* threw, WinMain returns and theApp is destroyed.
AfterInitialize(result) == IF result = "ok" THEN "update" ELSE "destructor"

\* ShapesApp::Initialize succeeding: build everything, submit, flush.
Initialize ==
    /\ pc = "constructed"
    /\ \E worlds \in [1 .. NumRitems -> WorldValues] :
         LET items == BuildRenderItems(<<>>, worlds, 0)
             opaque == BuildOpaqueRitems(items)
             objCount == Len(opaque)
         IN /\ mAllRitems' = items
            /\ mOpaqueRitems' = opaque
            /\ mFrameResources' = BuildFrameResources(Len(items))
            /\ mPassCbvOffset' = PassCbvOffset(objCount)
            /\ mCbvHeap' = BuildConstantBufferViews(NewHeap(objCount), objCount,
                                                    PassCbvOffset(objCount))
            /\ sinceChange' = [k \in 1 .. Len(items) |-> 0]
    /\ mCurrentFence' = FlushCommandQueue(mCurrentFence)
    /\ completed' = FlushCommandQueue(mCurrentFence)
    /\ mCommandList' = InitCommandList
    /\ queue' = <<>>
    /\ md3dDevice' = "device"
    /\ initResult' = "ok"
    /\ pc' = AfterInitialize("ok")
    /\ UNCHANGED <<mCurrFrameResourceIndex, bound, upd, slotHist, changes, camera,
                   mEyePos, cbv, geo, mProj, mClientSize, keyStates, mIsWireframe,
                   mCurrFrameResource, drawCalls>>

\* D3DApp::Initialize returns false, with or without a device created:
\* Initialize returns false, WinMain returns.
InitializeFails ==
    /\ pc = "constructed"
    /\ \E device \in {"nullptr", "device"} : md3dDevice' = device
    /\ initResult' = "false"
    /\ pc' = AfterInitialize("false")
    /\ UNCHANGED <<mAllRitems, mOpaqueRitems, mFrameResources, mCurrFrameResourceIndex,
                   mCurrentFence, completed, mPassCbvOffset, mCbvHeap, bound, upd,
                   slotHist, sinceChange, changes, camera, mEyePos, cbv, geo, mProj,
                   mClientSize, keyStates, mIsWireframe, mCurrFrameResource, gfx>>

\* The steps of Initialize in which a ThrowIfFailed can throw, named by what
\* has been built when it does: nothing of the scene (command list Reset,
\* BuildRootSignature, BuildShadersAndInputLayout, BuildShapeGeometry), the
\* render items and some frame resources (BuildFrameResources), these and
\* mPassCbvOffset (BuildDescriptorHeaps), or everything (BuildPSOs, Close).
ThrowStages == {"geometry", "frameResources", "heaps", "psos"}

\* ShapesApp::Initialize leaving by a DxException, caught in WinMain.
InitializeThrows ==
    /\ pc = "constructed"
    /\ \E stage \in ThrowStages, worlds \in [1 .. NumRitems -> WorldValues],
          built \in 0 .. gNumFrameResources - 1 :
         LET items == IF stage = "geometry" THEN <<>>
                      ELSE BuildRenderItems(<<>>, worlds, 0)
             opaque == BuildOpaqueRitems(items)
             objCount == Len(opaque)
             frs == BuildFrameResources(Len(items))
         IN /\ mAllRitems' = items
            /\ mOpaqueRitems' = opaque
            /\ mFrameResources' =
                   IF stage = "geometry" THEN <<>>
                   ELSE IF stage = "frameResources" THEN SubSeq(frs, 1, built)
                   ELSE frs
            /\ mPassCbvOffset' =
                   IF stage \in {"heaps", "psos"} THEN PassCbvOffset(objCount) ELSE 0
            /\ mCbvHeap' =
                   IF stage = "psos"
                   THEN BuildConstantBufferViews(NewHeap(objCount), objCount,
                                                 PassCbvOffset(objCount))
                   ELSE EmptyHeap
            /\ sinceChange' = [k \in 1 .. Len(items) |-> 0]
    /\ md3dDevice' = "device"
    /\ initResult' = "throw"
    /\ pc' = AfterInitialize("throw")
    /\ UNCHANGED <<mCurrFrameResourceIndex, mCurrentFence, completed, bound, upd,
                   slotHist, changes, camera, mEyePos, cbv, geo, mProj, mClientSize,
                   keyStates, mIsWireframe, mCurrFrameResource, gfx>>

\* Mutant of WriteCBs: the buffers of the frame resource after idx written.
WriteCBsNextSlot(idx, eyePos, frame, entryFence, entryDone, blocked) ==
    LET other == NextFrameResourceIndex(idx)
        fr == mFrameResources[other + 1]
        st == UpdateObjectCBs([items |-> mAllRitems, cb |-> fr.ObjectCB,
                               written |-> <<>>], 1)
    IN /\ mAllRitems' = st.items
       /\ mFrameResources' =
              [mFrameResources EXCEPT ![other + 1].ObjectCB = st.cb,
                                      ![other + 1].PassCB = MainPassCB(eyePos, frame)]
       /\ upd' = [slot |-> idx, entryFence |-> entryFence, entryDone |-> entryDone,
                  blocked |-> blocked, wrote |-> TRUE, writeDone |-> completed,
                  objWrites |-> st.written, passWrites |-> 1]
       /\ sinceChange' = [k \in DOMAIN sinceChange |->
                             Min(sinceChange[k] + 1, gNumFrameResources)]
       /\ pc' = "draw"

\* UpdateObjectCBs and UpdateMainPassCB on frame resource idx, which Update
\* entered with eye position eyePos, in frame number `frame`, seeing stamp
\* entryFence and completed value entryDone.
WriteCBs(idx, eyePos, frame, entryFence, entryDone, blocked) ==
    LET fr == mFrameResources[idx + 1]
        st == UpdateObjectCBs([items |-> mAllRitems, cb |-> fr.ObjectCB,
                               written |-> <<>>], 1)
    IN /\ mAllRitems' = st.items
       /\ mFrameResources' =
              [mFrameResources EXCEPT ![idx + 1].ObjectCB = st.cb,
                                      ![idx + 1].PassCB = MainPassCB(eyePos, frame)]
       /\ upd' = [slot |-> idx, entryFence |-> entryFence, entryDone |-> entryDone,
                  blocked |-> blocked, wrote |-> TRUE, writeDone |-> completed,
                  objWrites |-> st.written, passWrites |-> 1]
       /\ sinceChange' = [k \in DOMAIN sinceChange |->
                             Min(sinceChange[k] + 1, gNumFrameResources)]
       /\ pc' = "draw"

\* ShapesApp::Update up to its return or to the point where it blocks.
Update ==
    /\ pc = "update"
    /\ Len(slotHist) < MaxFrames
    /\ LET idx == NextFrameResourceIndex(mCurrFrameResourceIndex)
           fence == mFrameResources[idx + 1].Fence
       IN /\ mEyePos' = EyePos(mRadius, mPhi, mTheta)
          /\ mCurrFrameResourceIndex' = idx
          /\ mCurrFrameResource' = idx
          /\ slotHist' = Append(slotHist, idx)
          /\ IF MustWait(fence, completed)
             THEN /\ pc' = "wait"
                  /\ upd' = [slot |-> idx, entryFence |-> fence, entryDone |-> completed,
                             blocked |-> TRUE, wrote |-> FALSE, writeDone |-> 0,
                             objWrites |-> <<>>, passWrites |-> 0]
                  /\ UNCHANGED <<mAllRitems, mFrameResources, sinceChange>>
             ELSE WriteCBs(idx, EyePos(mRadius, mPhi, mTheta), Len(slotHist) + 1,
                           fence, completed, FALSE)
    /\ \E keyState \in keyStates : mIsWireframe' = OnKeyboardInput(keyState)
    /\ UNCHANGED <<mOpaqueRitems, mCurrentFence, completed, mPassCbvOffset, mCbvHeap,
                   bound, changes, camera, cbv, extra, gfx>>

\* WaitForSingleObject returns once the fence reached the awaited value; the
\* rest of Update runs.
UpdateResume ==
    /\ pc = "wait"
    /\ completed >= mFrameResources[mCurrFrameResourceIndex + 1].Fence
    /\ WriteCBs(mCurrFrameResourceIndex, mEyePos, Len(slotHist), upd.entryFence,
                upd.entryDone, TRUE)
    /\ UNCHANGED <<mOpaqueRitems, mCurrFrameResourceIndex, mCurrentFence, completed,
                   mPassCbvOffset, mCbvHeap, bound, slotHist, changes, camera,
                   mEyePos, cbv, extra, mIsWireframe, mCurrFrameResource, gfx>>

\* The descriptor offsets Draw and DrawRenderItems bind for frame resource idx.
Binding(idx) ==
    [pass |-> PassCbvIndex(mPassCbvOffset, idx),
     obj |-> [k \in 1 .. Len(mOpaqueRitems) |->
                 ObjCbvIndex(idx, Len(mOpaqueRitems),
                             mAllRitems[mOpaqueRitems[k]].ObjCBIndex)]]

\* Mutant of NextFence: the counter advanced by two.
NextFenceBy2(fence) == fence + 2

\* ++mCurrentFence
NextFence(fence) == fence + 1

\* Mutant of StampFence: the value stamped on every frame resource.
StampFenceAll(frs, idx, fence) == [k \in DOMAIN frs |-> [frs[k] EXCEPT !.Fence = fence]]

\* mCurrFrameResource->Fence = ++mCurrentFence
StampFence(frs, idx, fence) == [frs EXCEPT ![idx + 1].Fence = fence]

\* auto cmdListAlloc = mCurrFrameResource->CmdListAlloc; cmdListAlloc->Reset();
\* mCommandList->Reset(cmdListAlloc.Get(), mPSOs[...].Get())
ResetCommandList(st, alloc, pso) ==
    [st EXCEPT !.list = [alloc |-> alloc, pso |-> pso, draws |-> NoBinding,
                         closed |-> FALSE],
               !.calls = Append(@, "Reset")]

\* SetGraphicsRootDescriptorTable(1, passCbvHandle); DrawRenderItems(...)
RecordDraws(st, binding) ==
    [st EXCEPT !.list.draws = IF st.list.closed THEN @ ELSE binding,
               !.calls = Append(@, "DrawRenderItems")]

\* mCommandList->Close()
Close(st) == [st EXCEPT !.list.closed = TRUE, !.calls = Append(@, "Close")]

\* mCommandQueue->ExecuteCommandLists(_countof(cmdsLists), cmdsLists)
ExecuteCommandLists(st) ==
    [st EXCEPT !.queue = Append(@, ListEntry(st.list)),
               !.calls = Append(@, "ExecuteCommandLists")]

\* mSwapChain->Present(0, 0)
Present(st) ==
    [st EXCEPT !.queue = Append(@, PresentEntry), !.calls = Append(@, "Present")]

\* mCurrFrameResource->Fence = ++mCurrentFence
AdvanceFence(st, idx) ==
    [st EXCEPT !.fence = NextFence(@),
               !.frs = StampFence(@, idx, NextFence(st.fence)),
               !.calls = Append(@, "Fence")]

\* Mutant of Signal: the value signalled is the one before the increment.
SignalPrevious(st) ==
    [st EXCEPT !.queue = Append(@, SignalEntry(st.fence - 1)),
               !.calls = Append(@, "Signal")]

\* mCommandQueue->Signal(mFence.Get(), mCurrentFence)
Signal(st) ==
    [st EXCEPT !.queue = Append(@, SignalEntry(st.fence)),
               !.calls = Append(@, "Signal")]

\* Mutant of DrawSteps: the fence is advanced and stamped but never signalled.
DrawStepsNoSignal(st, idx, pso, binding) ==
    AdvanceFence(Present(ExecuteCommandLists(Close(RecordDraws(
        ResetCommandList(st, idx, pso), binding)))), idx)

\* Mutant of DrawSteps: the fence advanced and signalled before the command
\* list is recorded and submitted.
DrawStepsSignalFirst(st, idx, pso, binding) ==
    Present(ExecuteCommandLists(Close(RecordDraws(
        ResetCommandList(Signal(AdvanceFence(st, idx)), idx, pso), binding))))

\* The statements of Draw in program order, on st = [list, queue, fence, frs,
\* calls]: the command list, the command queue, mCurrentFence, the frame
\* resources and the calls made so far.
DrawSteps(st, idx, pso, binding) ==
    Signal(AdvanceFence(Present(ExecuteCommandLists(Close(RecordDraws(
        ResetCommandList(st, idx, pso), binding)))), idx))

\* ShapesApp::Draw
Draw ==
    /\ pc = "draw"
    /\ LET st == DrawSteps([list |-> mCommandList, queue |-> queue,
                            fence |-> mCurrentFence, frs |-> mFrameResources,
                            calls |-> <<>>],
                           mCurrFrameResource, PipelineState(mIsWireframe),
                           Binding(mCurrFrameResourceIndex))
       IN /\ bound' = st.list.draws
          /\ mCurrentFence' = st.fence
          /\ mFrameResources' = st.frs
          /\ queue' = st.queue
          /\ mCommandList' = st.list
          /\ drawCalls' = st.calls
    /\ pc' = "update"
    /\ UNCHANGED <<mAllRitems, mOpaqueRitems, mCurrFrameResourceIndex, completed,
                   mPassCbvOffset, mCbvHeap, upd, slotHist, sinceChange, changes,
                   camera, mEyePos, cbv, extra, mIsWireframe, mCurrFrameResource>>

\* The position of the first Signal in the queue q.
FirstSignal(q) ==
    CHOOSE i \in DOMAIN q :
        q[i].kind = "signal" /\ \A j \in 1 .. i - 1 : q[j].kind # "signal"

\* The GPU executes the queue up to and including its next Signal: the fence
\* takes the signalled value.
GpuComplete ==
    /\ pc \in {"initFlushing", "update", "wait", "draw", "flushing"}
    /\ completed < mCurrentFence
    /\ \E i \in DOMAIN queue : queue[i].kind = "signal"
    /\ completed' = queue[FirstSignal(queue)].value
    /\ queue' = SubSeq(queue, FirstSignal(queue) + 1, Len(queue))
    /\ UNCHANGED <<pc, mAllRitems, mOpaqueRitems, mFrameResources,
                   mCurrFrameResourceIndex, mCurrentFence, mPassCbvOffset, mCbvHeap,
                   bound, upd, slotHist, sinceChange, changes, camera, mEyePos, cbv,
                   extra, mIsWireframe, mCurrFrameResource, mCommandList, drawCalls>>

\* A render item's World is modified between frames, as RenderItem documents:
\* "when we modify obect data we should set NumFramesDirty = gNumFrameResources".
SetWorld(item, k, world) ==
    [item EXCEPT !.World = world, !.NumFramesDirty = gNumFrameResources]

ChangeWorld ==
    /\ pc = "update"
    /\ changes < MaxChanges
    /\ Len(slotHist) < MaxFrames
    /\ \E k \in DOMAIN mAllRitems, world \in WorldValues :
         /\ mAllRitems' = [mAllRitems EXCEPT ![k] = SetWorld(@, k, world)]
         /\ sinceChange' = [sinceChange EXCEPT ![k] = 0]
    /\ changes' = changes + 1
    /\ UNCHANGED <<pc, mOpaqueRitems, mFrameResources, mCurrFrameResourceIndex,
                   mCurrentFence, completed, mPassCbvOffset, mCbvHeap, bound, upd,
                   slotHist, camera, mEyePos, cbv, extra, mIsWireframe,
                   mCurrFrameResource, gfx>>

\* The application's state outside the camera.
ring == <<mAllRitems, mOpaqueRitems, mFrameResources, mCurrFrameResourceIndex,
          mCurrentFence, completed, mPassCbvOffset, mCbvHeap, bound, upd, slotHist,
          sinceChange, changes, mEyePos, cbv, extra, mIsWireframe, mCurrFrameResource,
          gfx>>

\* Window messages are dispatched between frames, never inside one.
Dispatching == pc = "update" /\ mouseEvents < MaxMouseEvents

\* ShapesApp::OnMouseDown
OnMouseDown ==
    /\ Dispatching
    /\ \E btnState \in ButtonStates, p \in MousePoints :
         mLastMousePos' = [x |-> p.x, y |-> p.y, stored |-> TRUE]
    /\ mouseEvents' = mouseEvents + 1
    /\ lastMessage' = Message("down", {})
    /\ UNCHANGED <<pc, ring, mTheta, mPhi, mRadius>>

\* ShapesApp::OnMouseUp
OnMouseUp ==
    /\ Dispatching
    /\ mouseEvents' = mouseEvents + 1
    /\ lastMessage' = Message("up", {})
    /\ UNCHANGED <<pc, ring, mTheta, mPhi, mRadius, mLastMousePos>>

\* ShapesApp::OnMouseMove with the stored position `last`.
MouseMove(btnState, p, last) ==
    /\ IF MK_LBUTTON \in btnState
       THEN /\ mTheta' = [mTheta EXCEPT !.a = @ + (p.x - last.x)]
            /\ mPhi' = ClampAngle([mPhi EXCEPT !.a = @ + (p.y - last.y)],
                                  PhiMin, PhiMax)
            /\ UNCHANGED mRadius
       ELSE IF MK_RBUTTON \in btnState
       THEN /\ mRadius' = ClampRadius(
                              [u |-> mRadius.u + (p.x - last.x) - (p.y - last.y)],
                              RadiusMin, RadiusMax)
            /\ UNCHANGED <<mTheta, mPhi>>
       ELSE UNCHANGED <<mTheta, mPhi, mRadius>>
    /\ mLastMousePos' = [x |-> p.x, y |-> p.y, stored |-> TRUE]
    /\ lastMessage' = Message("move", btnState)

\* A move that arrives before any position was stored reads the indeterminate
\* mLastMousePos: any value.
OnMouseMove ==
    /\ Dispatching
    /\ \E btnState \in ButtonStates, p \in MousePoints :
         IF ~mLastMousePos.stored
         THEN \E last \in MousePoints : MouseMove(btnState, p, last)
         ELSE MouseMove(btnState, p, mLastMousePos)
    /\ mouseEvents' = mouseEvents + 1
    /\ UNCHANGED <<pc, ring>>

\* D3DApp: WM_SIZE stores the new client size, D3DApp::OnResize flushes the
\* command queue and resizes the swap chain and depth buffers.
D3DAppOnResize(size) ==
    /\ mClientSize' = size
    /\ mCurrentFence' = FlushCommandQueue(mCurrentFence)
    /\ completed' = FlushCommandQueue(mCurrentFence)
    /\ queue' = <<>>

\* ShapesApp::OnResize
OnResize ==
    /\ Dispatching
    /\ \E size \in ClientSizes :
         /\ D3DAppOnResize(size)
         /\ mProj' = PerspectiveFovLH(AspectRatio(size))
    /\ mouseEvents' = mouseEvents + 1
    /\ lastMessage' = Message("resize", {})
    /\ UNCHANGED <<pc, mAllRitems, mOpaqueRitems, mFrameResources,
                   mCurrFrameResourceIndex, mPassCbvOffset, mCbvHeap, bound, upd,
                   slotHist, sinceChange, changes, mEyePos, cbv, geo, keyStates,
                   md3dDevice, initResult, mIsWireframe, mCurrFrameResource, mTheta,
                   mPhi, mRadius, mLastMousePos, mCommandList, drawCalls>>

\* D3DApp::Run returns (WM_QUIT) between two frames: WinMain returns and
\* theApp is destroyed.
Quit ==
    /\ pc = "update"
    /\ pc' = "destructor"
    /\ UNCHANGED <<ring, camera>>

\* Mutant of DestructorFlushes: the destructor never flushes.
DestructorNeverFlushes(device) == FALSE

\* if (md3dDevice != nullptr)
DestructorFlushes(device) == device # "nullptr"

\* ShapesApp::~ShapesApp up to the wait inside FlushCommandQueue.
Destructor ==
    /\ pc = "destructor"
    /\ IF DestructorFlushes(md3dDevice)
       THEN /\ mCurrentFence' = FlushCommandQueue(mCurrentFence)
            /\ queue' = Append(queue, SignalEntry(FlushCommandQueue(mCurrentFence)))
            /\ pc' = "flushing"
       ELSE /\ pc' = "destroying"
            /\ UNCHANGED <<mCurrentFence, queue>>
    /\ UNCHANGED <<mAllRitems, mOpaqueRitems, mFrameResources, mCurrFrameResourceIndex,
                   completed, mPassCbvOffset, mCbvHeap, bound, upd, slotHist,
                   sinceChange, changes, camera, mEyePos, cbv, extra, mIsWireframe,
                   mCurrFrameResource, mCommandList, drawCalls>>

\* FlushCommandQueue returns once the fence reached the value it signalled;
\* the destructor body ends.
FlushReturns ==
    /\ pc = "flushing"
    /\ completed >= mCurrentFence
    /\ pc' = "destroying"
    /\ UNCHANGED <<ring, camera>>

\* The members of theApp are destroyed: frame resources, render items,
\* descriptor heap, device.
DestroyMembers ==
    /\ pc = "destroying"
    /\ mFrameResources' = <<>>
    /\ mAllRitems' = <<>>
    /\ mOpaqueRitems' = <<>>
    /\ mCbvHeap' = EmptyHeap
    /\ md3dDevice' = "nullptr"
    /\ pc' = "exit"
    /\ UNCHANGED <<mCurrFrameResourceIndex, mCurrentFence, completed, mPassCbvOffset,
                   bound, upd, slotHist, sinceChange, changes, camera, mEyePos, cbv,
                   geo, mProj, mClientSize, keyStates, initResult, mIsWireframe,
                   mCurrFrameResource, gfx>>

Next ==
    \/ Initialize
    \/ InitializeFails
    \/ Update
    \/ UpdateResume
    \/ Draw
    \/ GpuComplete
    \/ ChangeWorld
    \/ Destructor
    \/ FlushReturns
    \/ DestroyMembers

Spec == Init /\ [][Next]_vars


\* The frame loop with pointer input and a static scene.
NextInput ==
    \/ Initialize
    \/ Update
    \/ UpdateResume
    \/ Draw
    \/ GpuComplete
    \/ OnMouseDown
    \/ OnMouseUp
    \/ OnMouseMove

SpecInput == Init /\ [][NextInput]_vars

\* The pointer handlers, for up to MaxCameraEvents messages with coordinates
\* far enough apart to reach both ends of both clamps.
CameraDispatching == pc = "update" /\ mouseEvents < MaxCameraEvents

\* ShapesApp::OnMouseDown
CameraOnMouseDown ==
    /\ CameraDispatching
    /\ \E btnState \in ButtonStates, p \in CameraPoints :
         mLastMousePos' = [x |-> p.x, y |-> p.y, stored |-> TRUE]
    /\ mouseEvents' = mouseEvents + 1
    /\ lastMessage' = Message("down", {})
    /\ UNCHANGED <<pc, ring, mTheta, mPhi, mRadius>>

\* ShapesApp::OnMouseUp
CameraOnMouseUp ==
    /\ CameraDispatching
    /\ mouseEvents' = mouseEvents + 1
    /\ lastMessage' = Message("up", {})
    /\ UNCHANGED <<pc, ring, mTheta, mPhi, mRadius, mLastMousePos>>

\* ShapesApp::OnMouseMove
CameraOnMouseMove ==
    /\ CameraDispatching
    /\ \E btnState \in ButtonStates, p \in CameraPoints :
         IF ~mLastMousePos.stored
         THEN \E last \in CameraPoints : MouseMove(btnState, p, last)
         ELSE MouseMove(btnState, p, mLastMousePos)
    /\ mouseEvents' = mouseEvents + 1
    /\ UNCHANGED <<pc, ring>>

NextCamera ==
    \/ Initialize
    \/ CameraOnMouseDown
    \/ CameraOnMouseUp
    \/ CameraOnMouseMove

SpecCamera == Init /\ [][NextCamera]_vars

\* The frame loop with every window message and any state of the '1' key.
InitWindow ==
    /\ Constructed
    /\ cbv = CbvIdle
    /\ geo = GeoIdle
    /\ keyStates = KeyStates

NextWindow ==
    \/ Initialize
    \/ Update
    \/ UpdateResume
    \/ Draw
    \/ GpuComplete
    \/ OnMouseDown
    \/ OnMouseUp
    \/ OnMouseMove
    \/ OnResize

SpecWindow == InitWindow /\ [][NextWindow]_vars

\* The life of the process: Initialize succeeding, returning false or
\* throwing, frames of a static scene, and the destruction of theApp.
NextLife ==
    \/ Initialize
    \/ InitializeFails
    \/ InitializeThrows
    \/ Update
    \/ UpdateResume
    \/ Draw
    \/ GpuComplete
    \/ Quit
    \/ Destructor
    \/ FlushReturns
    \/ DestroyMembers

SpecLife == Init /\ [][NextLife]_vars


\* ------------------------------------------------------------------ SpecCbv
\* The descriptor heap of a scene of cbv.objCount render items, whose
\* ObjCBIndex values are 0 .. objCount - 1 as BuildRenderItems assigns them.

InitCbv ==
    /\ Constructed
    /\ \E n \in 0 .. MaxObjCount : cbv = [CbvIdle EXCEPT !.pc = "heaps", !.objCount = n]
    /\ geo = GeoIdle
    /\ keyStates = {KEY_UP}

app == <<pc, mAllRitems, mOpaqueRitems, mFrameResources, mCurrFrameResourceIndex,
         mCurrentFence, completed, mPassCbvOffset, mCbvHeap, bound, upd, slotHist,
         sinceChange, changes, camera, mEyePos, geo, mProj, mClientSize, keyStates,
         mIsWireframe, mCurrFrameResource, md3dDevice, initResult, gfx>>

\* ShapesApp::BuildDescriptorHeaps
CbvBuildDescriptorHeaps ==
    /\ cbv.pc = "heaps"
    /\ cbv' = [cbv EXCEPT !.pc = "views",
                          !.heap = NewHeap(cbv.objCount),
                          !.mPassCbvOffset = PassCbvOffset(cbv.objCount)]
    /\ UNCHANGED app

\* ShapesApp::BuildConstantBufferViews
CbvBuildConstantBufferViews ==
    /\ cbv.pc = "views"
    /\ cbv' = [cbv EXCEPT !.pc = "draw",
                          !.heap = BuildConstantBufferViews(cbv.heap, cbv.objCount,
                                                            cbv.mPassCbvOffset)]
    /\ UNCHANGED app

\* The descriptor tables Draw and DrawRenderItems set for frame resource f.
CbvDraw ==
    /\ cbv.pc = "draw"
    /\ \E f \in Slots :
         cbv' = [cbv EXCEPT
                   !.frame = f,
                   !.bound = [pass |-> PassCbvIndex(cbv.mPassCbvOffset, f),
                              obj |-> [k \in 1 .. cbv.objCount |->
                                          ObjCbvIndex(f, cbv.objCount, k - 1)]]]
    /\ UNCHANGED app

NextCbv ==
    \/ CbvBuildDescriptorHeaps
    \/ CbvBuildConstantBufferViews
    \/ CbvDraw

SpecCbv == InitCbv /\ [][NextCbv]_vars

\* ------------------------------------------------------------------ SpecGeo
\* BuildShapeGeometry on the meshes of the ten shapes, each mesh any of
\* MeshValues.

InitGeo ==
    /\ Constructed
    /\ cbv = CbvIdle
    /\ \E meshes \in [1 .. Len(ShapeNames) -> MeshValues] :
         geo = [GeoIdle EXCEPT !.pc = "geometry", !.meshes = meshes]
    /\ keyStates = {KEY_UP}

\* Everything but geo.
notGeo == <<pc, mAllRitems, mOpaqueRitems, mFrameResources, mCurrFrameResourceIndex,
            mCurrentFence, completed, mPassCbvOffset, mCbvHeap, bound, upd, slotHist,
            sinceChange, changes, camera, mEyePos, cbv, mProj, mClientSize, keyStates,
            mIsWireframe, mCurrFrameResource, md3dDevice, initResult, gfx>>

\* ShapesApp::BuildShapeGeometry
GeoBuildShapeGeometry ==
    /\ geo.pc = "geometry"
    /\ geo' = [geo EXCEPT !.pc = "items", !.store = BuildShapeGeometry(geo.meshes)]
    /\ UNCHANGED notGeo

\* ShapesApp::BuildRenderItems, for NumRitems items of any of LookupNames.
GeoBuildRenderItems ==
    /\ geo.pc = "items"
    /\ \E names \in [1 .. NumRitems -> LookupNames] :
         LET st == BuildShapeRenderItems(
                       [DrawArgs |-> geo.store.DrawArgs, items |-> <<>>], names, 1)
         IN geo' = [geo EXCEPT !.pc = "done", !.store.DrawArgs = st.DrawArgs,
                               !.items = st.items]
    /\ UNCHANGED notGeo

NextGeo ==
    \/ GeoBuildShapeGeometry
    \/ GeoBuildRenderItems

SpecGeo == InitGeo /\ [][NextGeo]_vars

\* ----------------------------------------------------------------- SpecKeys
\* The frame loop with the '1' key pressed and released at any moment.

InitKeys ==
    /\ Constructed
    /\ cbv = CbvIdle
    /\ geo = GeoIdle
    /\ \E keyState \in KeyStates : keyStates = {keyState}

\* The state of the '1' key changes: what GetAsyncKeyState('1') returns from
\* now on.
KeyChange ==
    /\ pc \in {"update", "wait", "draw"}
    /\ \E keyState \in KeyStates \ keyStates : keyStates' = {keyState}
    /\ UNCHANGED <<pc, mAllRitems, mOpaqueRitems, mFrameResources,
                   mCurrFrameResourceIndex, mCurrentFence, completed, mPassCbvOffset,
                   mCbvHeap, bound, upd, slotHist, sinceChange, changes, camera,
                   mEyePos, cbv, geo, mProj, mClientSize, md3dDevice, initResult,
                   mIsWireframe, mCurrFrameResource, gfx>>

NextKeys ==
    \/ Initialize
    \/ Update
    \/ UpdateResume
    \/ Draw
    \/ GpuComplete
    \/ KeyChange

SpecKeys == InitKeys /\ [][NextKeys]_vars

\* ----------------------------------------------------------------- SpecInit
\* ShapesApp::Initialize statement by statement, then the frame loop.

\* Mutant of InitializeSteps: the frame resources built before the render items.
InitializeStepsFrameResourcesFirst ==
    <<"Reset", "BuildFrameResources", "BuildRenderItems", "BuildDescriptorHeaps",
      "BuildConstantBufferViews", "ExecuteCommandLists", "FlushCommandQueue">>

\* Mutant of InitializeSteps: Initialize returns without FlushCommandQueue.
InitializeStepsNoFlush ==
    <<"Reset", "BuildRenderItems", "BuildFrameResources", "BuildDescriptorHeaps",
      "BuildConstantBufferViews", "ExecuteCommandLists">>

\* The statements of Initialize that touch the modelled state, in program
\* order (BuildRootSignature, BuildShadersAndInputLayout and BuildShapeGeometry
\* follow Reset, BuildPSOs follows BuildConstantBufferViews).
InitializeSteps ==
    <<"Reset", "BuildRenderItems", "BuildFrameResources", "BuildDescriptorHeaps",
      "BuildConstantBufferViews", "ExecuteCommandLists", "FlushCommandQueue">>

\* The statement after `step`, or the return.
AfterStep(step) ==
    LET i == CHOOSE k \in DOMAIN InitializeSteps : InitializeSteps[k] = step
    IN IF i = Len(InitializeSteps) THEN "return" ELSE InitializeSteps[i + 1]

\* Everything the steps of Initialize leave alone.
initRest == <<mCurrFrameResourceIndex, completed, bound, upd, slotHist, changes,
              camera, mEyePos, cbv, geo, mProj, mClientSize, keyStates,
              mIsWireframe, mCurrFrameResource, drawCalls, initResult>>

\* D3DApp::Initialize returned true.
InitEnter ==
    /\ pc = "constructed"
    /\ md3dDevice' = "device"
    /\ pc' = InitializeSteps[1]
    /\ UNCHANGED <<initRest, mAllRitems, mOpaqueRitems, sinceChange, mFrameResources,
                   mPassCbvOffset, mCbvHeap, mCurrentFence, queue, mCommandList>>

\* mCommandList->Reset(mDirectCmdListAlloc.Get(), nullptr)
InitReset ==
    /\ pc = "Reset"
    /\ mCommandList' = [InitCommandList EXCEPT !.closed = FALSE]
    /\ pc' = AfterStep("Reset")
    /\ UNCHANGED <<initRest, mAllRitems, mOpaqueRitems, sinceChange, mFrameResources,
                   mPassCbvOffset, mCbvHeap, mCurrentFence, queue, md3dDevice>>

\* BuildRenderItems()
InitBuildRenderItems ==
    /\ pc = "BuildRenderItems"
    /\ \E worlds \in [1 .. NumRitems -> WorldValues] :
         LET items == BuildRenderItems(<<>>, worlds, 0)
         IN /\ mAllRitems' = items
            /\ mOpaqueRitems' = BuildOpaqueRitems(items)
            /\ sinceChange' = [k \in 1 .. Len(items) |-> 0]
    /\ pc' = AfterStep("BuildRenderItems")
    /\ UNCHANGED <<initRest, mFrameResources, mPassCbvOffset, mCbvHeap, mCurrentFence,
                   queue, mCommandList, md3dDevice>>

\* BuildFrameResources()
InitBuildFrameResources ==
    /\ pc = "BuildFrameResources"
    /\ mFrameResources' = BuildFrameResources(Len(mAllRitems))
    /\ pc' = AfterStep("BuildFrameResources")
    /\ UNCHANGED <<initRest, mAllRitems, mOpaqueRitems, sinceChange, mPassCbvOffset,
                   mCbvHeap, mCurrentFence, queue, mCommandList, md3dDevice>>

\* BuildDescriptorHeaps()
InitBuildDescriptorHeaps ==
    /\ pc = "BuildDescriptorHeaps"
    /\ mPassCbvOffset' = PassCbvOffset(Len(mOpaqueRitems))
    /\ mCbvHeap' = NewHeap(Len(mOpaqueRitems))
    /\ pc' = AfterStep("BuildDescriptorHeaps")
    /\ UNCHANGED <<initRest, mAllRitems, mOpaqueRitems, sinceChange, mFrameResources,
                   mCurrentFence, queue, mCommandList, md3dDevice>>

\* BuildConstantBufferViews()
InitBuildConstantBufferViews ==
    /\ pc = "BuildConstantBufferViews"
    /\ mCbvHeap' = BuildConstantBufferViews(mCbvHeap, Len(mOpaqueRitems),
                                            mPassCbvOffset)
    /\ pc' = AfterStep("BuildConstantBufferViews")
    /\ UNCHANGED <<initRest, mAllRitems, mOpaqueRitems, sinceChange, mFrameResources,
                   mPassCbvOffset, mCurrentFence, queue, mCommandList, md3dDevice>>

\* mCommandList->Close(); mCommandQueue->ExecuteCommandLists(...)
InitExecuteCommandLists ==
    /\ pc = "ExecuteCommandLists"
    /\ mCommandList' = [mCommandList EXCEPT !.closed = TRUE]
    /\ queue' = Append(queue, ListEntry(mCommandList))
    /\ pc' = AfterStep("ExecuteCommandLists")
    /\ UNCHANGED <<initRest, mAllRitems, mOpaqueRitems, sinceChange, mFrameResources,
                   mPassCbvOffset, mCbvHeap, mCurrentFence, md3dDevice>>

\* FlushCommandQueue() up to its wait.
InitFlushCommandQueue ==
    /\ pc = "FlushCommandQueue"
    /\ mCurrentFence' = FlushCommandQueue(mCurrentFence)
    /\ queue' = Append(queue, SignalEntry(FlushCommandQueue(mCurrentFence)))
    /\ pc' = "initFlushing"
    /\ UNCHANGED <<initRest, mAllRitems, mOpaqueRitems, sinceChange, mFrameResources,
                   mPassCbvOffset, mCbvHeap, mCommandList, md3dDevice>>

\* FlushCommandQueue returns once the fence reached the value it signalled.
InitFlushReturns ==
    /\ pc = "initFlushing"
    /\ completed >= mCurrentFence
    /\ pc' = AfterStep("FlushCommandQueue")
    /\ UNCHANGED <<initRest, mAllRitems, mOpaqueRitems, sinceChange, mFrameResources,
                   mPassCbvOffset, mCbvHeap, mCurrentFence, queue, mCommandList,
                   md3dDevice>>

\* return true; WinMain goes on to Run.
InitReturn ==
    /\ pc = "return"
    /\ initResult' = "ok"
    /\ pc' = AfterInitialize("ok")
    /\ UNCHANGED <<mAllRitems, mOpaqueRitems, mFrameResources, mCurrFrameResourceIndex,
                   mCurrentFence, completed, mPassCbvOffset, mCbvHeap, bound, upd,
                   slotHist, sinceChange, changes, camera, mEyePos, cbv, geo, mProj,
                   mClientSize, keyStates, md3dDevice, mIsWireframe,
                   mCurrFrameResource, gfx>>

NextInit ==
    \/ InitEnter
    \/ InitReset
    \/ InitBuildRenderItems
    \/ InitBuildFrameResources
    \/ InitBuildDescriptorHeaps
    \/ InitBuildConstantBufferViews
    \/ InitExecuteCommandLists
    \/ InitFlushCommandQueue
    \/ InitFlushReturns
    \/ InitReturn
    \/ Update
    \/ UpdateResume
    \/ Draw
    \/ GpuComplete

SpecInit == Init /\ [][NextInit]_vars

\* ---- the frame loop under fair scheduling ----

\* The frame loop alone: Initialize, then Update and Draw in turn while the
\* GPU works through the command queue.
NextLoop ==
    \/ Initialize
    \/ Update
    \/ UpdateResume
    \/ Draw
    \/ GpuComplete

\* The thread running the message loop keeps executing (Initialize, Update and
\* Draw are taken when they are next), WaitForSingleObject returns once the
\* fence has reached the awaited value, and the GPU executes the commands
\* queued to it, completing every signalled fence value.
LoopFairness ==
    /\ WF_vars(Initialize)
    /\ WF_vars(Update)
    /\ WF_vars(UpdateResume)
    /\ WF_vars(Draw)
    /\ WF_vars(GpuComplete)

SpecFair == Init /\ [][NextLoop]_vars /\ LoopFairness


\* ------------------------------------------------------------------- claims

Running == pc \in {"update", "wait", "draw"}

\* The constant buffers of frame resource f.
Buffers(frs, f) == <<frs[f + 1].ObjectCB, frs[f + 1].PassCB>>

\* The element of frame resource f's ObjectCB that belongs to render item k.
Cached(f, k) == mFrameResources[f + 1].ObjectCB[mAllRitems[k].ObjCBIndex + 1]

\* C1: no step changes the per-object or per-pass constant buffer of a frame
\* resource f while the completed fence value is below the value stamped on f;
\* and a blocked Update waits for the stamp of its own frame resource.
C1_NoWriteBeforeFenceReached ==
    [][Running =>
         /\ \A f \in Slots :
              Buffers(mFrameResources', f) # Buffers(mFrameResources, f)
                  => completed >= mFrameResources[f + 1].Fence
         /\ (pc = "wait" /\ pc' # "wait")
                  => completed >= mFrameResources[mCurrFrameResourceIndex + 1].Fence]_vars

\* C1 witness: an Update that blocked has written its frame resource once the
\* GPU reached that resource's stamp, with later frames still in flight.
C1_Witness ==
    /\ pc = "draw"
    /\ upd.blocked /\ upd.wrote
    /\ upd.entryFence > upd.entryDone
    /\ upd.writeDone >= upd.entryFence
    /\ upd.writeDone < mCurrentFence


\* An Update has just finished: its writes are done and Draw comes next.
UpdateReturns == pc \in {"update", "wait"} /\ pc' = "draw"

\* C2 as stated: once gNumFrameResources Updates have run since a render item's
\* World last changed, its NumFramesDirty is 0 and its cached constants in every
\* frame resource equal the World matrix.
C2_Original ==
    Running =>
      \A k \in DOMAIN mAllRitems :
        sinceChange[k] = gNumFrameResources =>
          /\ mAllRitems[k].NumFramesDirty = 0
          /\ \A f \in Slots : Cached(f, k) = mAllRitems[k].World

\* C2 amended: a change of World leaves NumFramesDirty = gNumFrameResources,
\* every Update after it lowers it by one, and once gNumFrameResources Updates
\* have run it is 0 and the cached constants of the item in every frame
\* resource are the transpose of the new World matrix.
C2_DirtyPropagation ==
    Running =>
      \A k \in DOMAIN mAllRitems :
        /\ mAllRitems[k].NumFramesDirty = gNumFrameResources - sinceChange[k]
        /\ sinceChange[k] = gNumFrameResources =>
             \A f \in Slots : Cached(f, k) = XMMatrixTranspose(mAllRitems[k].World)

\* C2 witness: a World was changed after Initialize to a non-symmetric matrix
\* and gNumFrameResources Updates have propagated it.
C2_Witness ==
    /\ Running
    /\ changes > 0
    /\ \E k \in DOMAIN mAllRitems :
         /\ sinceChange[k] = gNumFrameResources
         /\ mAllRitems[k].World # XMMatrixTranspose(mAllRitems[k].World)
         /\ mAllRitems[k].NumFramesDirty = 0
         /\ \A f \in Slots : Cached(f, k) = XMMatrixTranspose(mAllRitems[k].World)

\* C3 as stated: at every Draw the active frame resource's cached constants of
\* every render item equal the item's World matrix.
C3_Original ==
    pc = "draw" =>
      \A k \in DOMAIN mAllRitems :
        Cached(mCurrFrameResourceIndex, k) = mAllRitems[k].World

\* C3 amended: at every Draw the active frame resource's cached constants of
\* every render item are the transpose of the item's current World matrix: no
\* stale value is submitted.
C3_NoStaleAtDraw ==
    pc = "draw" =>
      \A k \in DOMAIN mAllRitems :
        Cached(mCurrFrameResourceIndex, k) = XMMatrixTranspose(mAllRitems[k].World)

\* C3 witness: a Draw whose frame resource was refreshed on its first activation
\* after a change while another frame resource still holds the old value.
C3_Witness ==
    /\ pc = "draw"
    /\ changes > 0
    /\ \E k \in DOMAIN mAllRitems :
         /\ sinceChange[k] = 1
         /\ Cached(mCurrFrameResourceIndex, k) = XMMatrixTranspose(mAllRitems[k].World)
         /\ \E f \in Slots :
              /\ Cached(f, k) # Uninit
              /\ Cached(f, k) # XMMatrixTranspose(mAllRitems[k].World)

\* The first frames' active slots agree with the sequence s.
FirstSlotsAre(s) ==
    \A n \in 1 .. Len(slotHist) : n <= Len(s) => slotHist[n] = s[n]

\* C4 as stated: the active slot of the first five frames is 0, 1, 2, 0, 1.
C4_Original == FirstSlotsAre(<<0, 1, 2, 0, 1>>)

\* C4 amended: the active slot of the first five frames is 1, 2, 0, 1, 2, and
\* it is the current index whenever a frame is under way.
C4_SlotCycle ==
    /\ FirstSlotsAre(<<1, 2, 0, 1, 2>>)
    /\ pc \in {"wait", "draw"} => slotHist[Len(slotHist)] = mCurrFrameResourceIndex

\* C4 witness: five Update/Draw cycles have completed.
C4_Witness == Len(slotHist) = 5 /\ pc = "update" /\ mCurrFrameResourceIndex = 2

\* A step of Draw.
DrawStep == pc = "draw" /\ pc' = "update"

\* C5: mCurrentFence never decreases, every Draw raises it by exactly 1, and no
\* step of Update, of a pointer handler or of the GPU changes it.
C5_FenceCounter ==
    [][/\ mCurrentFence' >= mCurrentFence
       /\ DrawStep => mCurrentFence' = mCurrentFence + 1
       /\ (Running /\ ~DrawStep) => mCurrentFence' = mCurrentFence]_vars

\* C5 witness: frames were drawn and a pointer event was handled.
C5_Witness ==
    /\ pc = "update"
    /\ Len(slotHist) >= 2
    /\ mCurrentFence = Len(slotHist) + 1
    /\ mouseEvents > 0
    /\ mLastMousePos.stored

\* C6: in the first gNumFrameResources frames the activated frame resource
\* still has Fence = 0 and Update does not block.
C6_NoWaitFirstFrames ==
    (Running /\ 1 <= Len(slotHist) /\ Len(slotHist) <= gNumFrameResources) =>
      /\ pc # "wait"
      /\ ~upd.blocked
      /\ upd.entryFence = 0

\* C6 witness: frame gNumFrameResources was updated without blocking although
\* the GPU had completed none of the frames submitted before it.
C6_Witness ==
    /\ pc = "draw"
    /\ Len(slotHist) = gNumFrameResources
    /\ upd.wrote /\ ~upd.blocked
    /\ upd.entryDone = 1
    /\ mCurrentFence = gNumFrameResources

\* C7: from frame gNumFrameResources + 1 on, Update blocks exactly when the
\* completed value is below the stamp of the frame resource it activates, which
\* is exactly when completion lags submission by more than
\* gNumFrameResources - 1 fence values.
C7_WaitFromFrameNPlus1 ==
    (pc \in {"wait", "draw"} /\ Len(slotHist) > gNumFrameResources) =>
      /\ upd.entryFence # 0
      /\ upd.blocked <=> upd.entryDone < upd.entryFence
      /\ upd.blocked <=> mCurrentFence - upd.entryDone > gNumFrameResources - 1
      /\ pc = "wait" => upd.blocked

\* C7 witness: Update is blocked in frame gNumFrameResources + 1.
C7_Witness ==
    /\ pc = "wait"
    /\ Len(slotHist) = gNumFrameResources + 1
    /\ upd.blocked /\ ~upd.wrote
    /\ completed < mFrameResources[mCurrFrameResourceIndex + 1].Fence

\* No render item is dirty.
AllClean == \A k \in DOMAIN mAllRitems : mAllRitems[k].NumFramesDirty = 0

\* C8 as stated: an Update that starts with no render item dirty writes no
\* constant buffer at all.
C8_Original ==
    [][(UpdateReturns /\ AllClean) =>
         /\ upd'.objWrites = <<>>
         /\ upd'.passWrites = 0
         /\ mFrameResources' = mFrameResources]_vars

\* C8 amended: an Update that starts with no render item dirty writes no
\* per-object constants and changes no NumFramesDirty; it still writes the
\* per-pass constants of the frame resource it activated, once.
C8_CleanUpdateWrites ==
    [][(UpdateReturns /\ AllClean) =>
         /\ upd'.objWrites = <<>>
         /\ mAllRitems' = mAllRitems
         /\ \A f \in Slots :
              mFrameResources'[f + 1].ObjectCB = mFrameResources[f + 1].ObjectCB
         /\ upd'.passWrites = 1
         /\ mFrameResources'[mCurrFrameResourceIndex' + 1].PassCB
                # mFrameResources[mCurrFrameResourceIndex' + 1].PassCB]_vars

\* C8 witness: the Update of a frame after the scene became clean has returned.
C8_Witness ==
    /\ pc = "draw"
    /\ Len(slotHist) > gNumFrameResources
    /\ \A k \in DOMAIN mAllRitems : sinceChange[k] = gNumFrameResources
    /\ AllClean
    /\ upd.wrote /\ upd.objWrites = <<>> /\ upd.passWrites = 1


\* Object indices of the scene SpecCbv is in.
CbvObjects == 0 .. cbv.objCount - 1

\* C9: BuildConstantBufferViews puts the view of (frame resource f, object i)
\* at offset f * objCount + i and the view of f's pass constants at offset
\* objCount * gNumFrameResources + f; Draw and DrawRenderItems bind exactly
\* these offsets; for objCount = 17 they are 39 for (2, 5) and 53 for pass 2.
C9_DescriptorOffsets ==
    /\ cbv.pc = "draw" =>
         /\ \A f \in Slots, i \in CbvObjects :
              /\ f * cbv.objCount + i + 1 \in DOMAIN cbv.heap.at
              /\ cbv.heap.at[f * cbv.objCount + i + 1] = ObjDescriptor(f, i)
         /\ \A f \in Slots :
              /\ cbv.objCount * gNumFrameResources + f + 1 \in DOMAIN cbv.heap.at
              /\ cbv.heap.at[cbv.objCount * gNumFrameResources + f + 1]
                     = PassDescriptor(f)
    /\ cbv.frame # -1 =>
         /\ cbv.bound.pass = cbv.objCount * gNumFrameResources + cbv.frame
         /\ \A i \in CbvObjects :
              cbv.bound.obj[i + 1] = cbv.frame * cbv.objCount + i
    /\ (cbv.objCount = 17 /\ cbv.frame = 2 /\ gNumFrameResources = 3) =>
         /\ cbv.bound.obj[5 + 1] = 39
         /\ cbv.bound.pass = 53
         /\ cbv.heap.at[39 + 1] = ObjDescriptor(2, 5)
         /\ cbv.heap.at[53 + 1] = PassDescriptor(2)

\* C9 witness: the heap of 17 objects is populated and a frame on frame
\* resource 2 has bound its tables.
C9_Witness ==
    /\ cbv.pc = "draw"
    /\ cbv.objCount = 17
    /\ cbv.frame = 2
    /\ cbv.bound.obj[6] = 39
    /\ cbv.bound.pass = 53

\* C10: the object offsets of distinct (f, i) are distinct, none is a pass
\* offset, and every offset lies in [0, gNumFrameResources * (objCount + 1)),
\* the size the heap is created with: populating the heap writes every entry
\* exactly once and nothing outside it.
C10_OffsetsDistinctInRange ==
    cbv.pc = "draw" =>
      LET capacity == gNumFrameResources * (cbv.objCount + 1)
          obj(f, i) == ObjHeapIndex(f, cbv.objCount, i)
          pass(f) == PassHeapIndex(cbv.mPassCbvOffset, f)
      IN /\ Len(cbv.heap.at) = capacity
         /\ cbv.heap.lost = 0
         /\ \A k \in DOMAIN cbv.heap.n : cbv.heap.n[k] = 1
         /\ \A f \in Slots, i \in CbvObjects :
              /\ 0 <= obj(f, i) /\ obj(f, i) < capacity
              /\ \A f2 \in Slots : obj(f, i) # pass(f2)
              /\ \A f2 \in Slots, i2 \in CbvObjects :
                   <<f, i>> # <<f2, i2>> => obj(f, i) # obj(f2, i2)
         /\ \A f \in Slots :
              /\ 0 <= pass(f) /\ pass(f) < capacity
              /\ \A f2 \in Slots : f # f2 => pass(f) # pass(f2)
         /\ cbv.frame # -1 =>
              /\ 0 <= cbv.bound.pass /\ cbv.bound.pass < capacity
              /\ \A k \in DOMAIN cbv.bound.obj :
                   0 <= cbv.bound.obj[k] /\ cbv.bound.obj[k] < capacity

\* C10 witness: a populated heap of several objects, every entry written once.
C10_Witness ==
    /\ cbv.pc = "draw"
    /\ cbv.objCount = 17
    /\ Len(cbv.heap.at) = 54
    /\ \A k \in DOMAIN cbv.heap.n : cbv.heap.n[k] = 1
    /\ cbv.heap.at[1] = ObjDescriptor(0, 0)
    /\ cbv.heap.at[54] = PassDescriptor(2)

RECURSIVE SumSeq(_)
SumSeq(q) == IF q = <<>> THEN 0 ELSE q[1] + SumSeq(Tail(q))

\* Index and vertex counts of the shapes concatenated before the k-th.
IndexCountsBefore(k) == SumSeq([j \in 1 .. k - 1 |-> Len(geo.meshes[j].Indices32)])
VertexCountsBefore(k) == SumSeq([j \in 1 .. k - 1 |-> geo.meshes[j].Vertices])

GeoBuilt == geo.pc = "items"

\* C11: in the store BuildShapeGeometry builds, every shape's
\* StartIndexLocation is the sum of the index counts of the shapes before it
\* and its IndexCount the length of its own index list, so that every position
\* of the index buffer lies in the range of exactly one shape and the range of
\* a shape holds that shape's indices; every shape's BaseVertexLocation is the
\* sum of the vertex counts of the shapes before it, which is where the copy
\* loops put its first vertex.
C11_SubmeshesTile ==
    GeoBuilt =>
        LET args == geo.store.DrawArgs
            n == Len(ShapeNames)
            total == Len(geo.store.indices)
            Range(k) == args[ShapeNames[k]].StartIndexLocation ..
                        args[ShapeNames[k]].StartIndexLocation
                            + args[ShapeNames[k]].IndexCount - 1
        IN /\ DOMAIN args = {ShapeNames[k] : k \in 1 .. n}
           /\ \A k \in 1 .. n :
                /\ args[ShapeNames[k]].StartIndexLocation = IndexCountsBefore(k)
                /\ args[ShapeNames[k]].IndexCount = Len(geo.meshes[k].Indices32)
                /\ args[ShapeNames[k]].BaseVertexLocation = VertexCountsBefore(k)
                /\ geo.store.vertices[k].shape = ShapeNames[k]
                /\ geo.store.vertices[k].first = args[ShapeNames[k]].BaseVertexLocation
                /\ geo.store.vertices[k].count = geo.meshes[k].Vertices
                /\ \A i \in 1 .. args[ShapeNames[k]].IndexCount :
                     geo.store.indices[args[ShapeNames[k]].StartIndexLocation + i]
                         = GetIndices16(geo.meshes[k])[i]
           /\ total = IndexCountsBefore(n + 1)
           /\ \A i \in 0 .. total - 1 :
                Cardinality({k \in 1 .. n : i \in Range(k)}) = 1
           /\ \A k \in 1 .. n : Range(k) \subseteq 0 .. total - 1
           /\ geo.store.totalVertexCount = VertexCountsBefore(n + 1)

\* A store built from meshes of both sizes: the third shape starts after the
\* six indices and 65537 vertices of the first and the three of the second.
C11_Witness ==
    /\ GeoBuilt
    /\ geo.meshes[1] = LargeMesh
    /\ geo.meshes[2] = SmallMesh
    /\ geo.store.DrawArgs["sphere"].StartIndexLocation = 9
    /\ geo.store.DrawArgs["sphere"].BaseVertexLocation = 65540
    /\ Len(geo.store.indices) > 30

\* C12: BuildShapeGeometry never yields a store when the total vertex count
\* exceeds what 16-bit indices address (the build aborts instead), and the
\* 16-bit indices of a store it yields are the indices of the meshes,
\* untruncated.
C12_AbortsBeyondIndexRange ==
    GeoBuilt =>
        /\ geo.store.totalVertexCount <= UINT16_COUNT
        /\ \A k \in 1 .. Len(ShapeNames) :
             \A i \in 1 .. Len(geo.meshes[k].Indices32) :
                geo.store.indices[geo.store.DrawArgs[ShapeNames[k]].StartIndexLocation + i]
                    = geo.meshes[k].Indices32[i]

\* Update from its entry to its return or to its fence wait.
UpdateEnters == pc = "update" /\ pc' \in {"wait", "draw"}

\* A window message (pointer or resize) is handled.
MessageStep == mouseEvents' # mouseEvents

\* C13: mCurrFrameResourceIndex and mCurrFrameResource change in no step but
\* Update's, whatever the key state Update reads; Update's step takes the
\* index from i to i + 1, or to 0 from gNumFrameResources - 1, and points
\* mCurrFrameResource at that slot; Draw, OnResize and the pointer handlers
\* leave both unchanged.
C13_OnlyUpdateAdvances ==
    [][/\ UpdateEnters =>
            /\ mCurrFrameResourceIndex' =
                   IF mCurrFrameResourceIndex = gNumFrameResources - 1 THEN 0
                   ELSE mCurrFrameResourceIndex + 1
            /\ mCurrFrameResource' = mCurrFrameResourceIndex'
       /\ ~UpdateEnters => UNCHANGED <<mCurrFrameResourceIndex, mCurrFrameResource>>
       /\ (DrawStep \/ MessageStep) =>
            UNCHANGED <<mCurrFrameResourceIndex, mCurrFrameResource>>]_vars

\* The fourth frame has been drawn on slot 1 after the index wrapped, with the
\* '1' key read as down, and a resize handled afterwards left the slot alone.
C13_Witness ==
    /\ pc = "update"
    /\ slotHist = <<1, 2, 0, 1>>
    /\ mCurrFrameResourceIndex = 1
    /\ mCurrFrameResource = 1
    /\ mIsWireframe
    /\ mouseEvents = 1
    /\ ~mProj.identity
    /\ bound # NoBinding

\* The stamp of the frame resource the index designates.
CurrFence == mFrameResources[mCurrFrameResourceIndex + 1].Fence

\* C14: within a frame the application thread stops in one place only, the
\* fence wait of Update. Update, whenever a frame is due, runs; it reaches its
\* wait exactly when the stamp of the frame resource it activated is non-zero
\* and the completed fence value is below that stamp, and otherwise returns;
\* from the wait it can go on exactly when the completed value has reached
\* the stamp, and then it runs to its return; Draw, once Update has returned,
\* always runs.
C14_OneBlockingPoint ==
    /\ [](pc = "update" /\ Len(slotHist) < MaxFrames => ENABLED Update)
    /\ [](pc = "draw" => ENABLED Draw)
    /\ [](pc = "wait" => /\ CurrFence # 0
                         /\ (ENABLED UpdateResume <=> completed >= CurrFence))
    /\ [][/\ UpdateEnters =>
               (pc' = "wait" <=>
                    /\ mFrameResources[mCurrFrameResourceIndex' + 1].Fence # 0
                    /\ completed < mFrameResources[mCurrFrameResourceIndex' + 1].Fence)
          /\ (pc = "wait" /\ pc' # "wait") => (pc' = "draw" /\ completed >= CurrFence)
          /\ pc = "draw" => pc' \in {"draw", "update"}]_vars

\* A frame whose Update blocked on a stamp the GPU had not reached, resumed
\* when it had, and was then drawn.
C14_Witness ==
    /\ pc = "update"
    /\ Len(slotHist) >= gNumFrameResources + 1
    /\ upd.blocked
    /\ upd.wrote
    /\ upd.entryFence # 0
    /\ upd.entryDone < upd.entryFence
    /\ upd.writeDone >= upd.entryFence
    /\ CurrFence = mCurrentFence

\* The frame resources, render items and descriptor heap are destroyed.
DestroyStep == pc = "destroying" /\ pc' = "exit"

\* C15: the frame resources exist from Initialize until theApp's members are
\* destroyed, and when they are destroyed the destructor's flush has
\* completed: the fence counter is a fresh value, above every value stamped on
\* a frame resource, and the completed fence value has reached it, so every
\* submitted frame has been retired.
C15_DrainBeforeDestroy ==
    [][/\ (mFrameResources # <<>> /\ mFrameResources' # mFrameResources
              /\ pc # "constructed" /\ ~(Running /\ pc' \in {"update", "draw"}))
          => DestroyStep
       /\ (DestroyStep /\ mFrameResources # <<>>) =>
            /\ completed >= mCurrentFence
            /\ \A f \in DOMAIN mFrameResources :
                 /\ mFrameResources[f].Fence < mCurrentFence
                 /\ mFrameResources[f].Fence <= completed]_vars

\* The application quit after five frames and its members are destroyed, the
\* completed value having reached the value the destructor's flush signalled.
C15_Witness ==
    /\ pc = "exit"
    /\ initResult = "ok"
    /\ Len(slotHist) = 5
    /\ mFrameResources = <<>>
    /\ mCurrentFence = 7
    /\ completed = 7

\* A step of OnResize: a window message that is not a pointer message.
ResizeStep == MessageStep /\ mCurrentFence' # mCurrentFence

\* C16: OnResize stores in mProj the perspective projection of the new
\* client size's aspect ratio and leaves the frame resources (their stamps and
\* buffers included), mCurrFrameResourceIndex, mCurrFrameResource, the
\* descriptor heap, mPassCbvOffset and the render items (their NumFramesDirty
\* included) as they were.
C16_ResizeProjectionOnly ==
    [][ResizeStep =>
          /\ mProj' = [identity |-> FALSE,
                       aspect |-> IF 3 * mClientSize'[1] = 4 * mClientSize'[2]
                                  THEN <<4, 3>> ELSE <<16, 9>>]
          /\ UNCHANGED <<mFrameResources, mCurrFrameResourceIndex, mCurrFrameResource,
                         mCbvHeap, mPassCbvOffset, mAllRitems, mOpaqueRitems,
                         mTheta, mPhi, mRadius, mIsWireframe, pc>>]_vars

\* A resize to 1280x720 between the second and the third frame, with one frame
\* still outstanding when it arrived: the frame resources keep their stamps
\* and contents, the render items their dirty counts.
C16_Witness ==
    /\ pc = "update"
    /\ mouseEvents = 1
    /\ mClientSize = <<1280, 720>>
    /\ mProj = PerspectiveFovLH(<<16, 9>>)
    /\ Len(slotHist) = 2
    /\ mCurrFrameResourceIndex = 2
    /\ mFrameResources[3].Fence = 3
    /\ mFrameResources[3].PassCB # Uninit
    /\ mCurrentFence = 4
    /\ \A k \in DOMAIN mAllRitems : mAllRitems[k].NumFramesDirty = 1

\* C17: the ObjectCB and PassCB of a frame resource change in no step but the
\* return of the Update that activated that frame resource; that Update
\* stores the frame's pass constants in its PassCB and leaves the ObjectCB
\* and PassCB of the other frame resources as they were.
C17_WritesOnlyActiveSlot ==
    [][(Running /\ Running') =>
          /\ \A f \in Slots :
               Buffers(mFrameResources', f) # Buffers(mFrameResources, f) =>
                   /\ UpdateReturns
                   /\ f = mCurrFrameResourceIndex'
                   /\ f = slotHist'[Len(slotHist')]
          /\ UpdateReturns =>
               /\ mFrameResources'[mCurrFrameResourceIndex' + 1].PassCB.TotalTime
                      = Len(slotHist')
               /\ \A f \in Slots \ {mCurrFrameResourceIndex'} :
                      Buffers(mFrameResources', f) = Buffers(mFrameResources, f)]_vars

\* The fourth Update has returned: it rewrote the buffers of slot 1, which
\* frame 1 had filled, while slots 2 and 0 still hold what frames 2 and 3
\* wrote.
C17_Witness ==
    /\ pc = "draw"
    /\ Len(slotHist) = 4
    /\ mCurrFrameResourceIndex = 1
    /\ mFrameResources[2].PassCB.TotalTime = 4
    /\ mFrameResources[3].PassCB.TotalTime = 2
    /\ mFrameResources[1].PassCB.TotalTime = 3
    /\ \A f \in Slots : \A k \in DOMAIN mAllRitems :
         mFrameResources[f + 1].ObjectCB[k] # Uninit

C19_NoFrameAfterFailedInit ==
    initResult \in {"false", "throw"} =>
        /\ pc \in {"destructor", "flushing", "destroying", "exit"}
        /\ slotHist = <<>>
        /\ upd = NoUpdate
        /\ bound = NoBinding
        /\ mCurrFrameResource = -1
        /\ mCurrentFence <= 1
        /\ \A f \in DOMAIN mFrameResources :
             /\ mFrameResources[f].Fence = 0
             /\ mFrameResources[f].PassCB = Uninit

\* Initialize threw after the descriptor heap was built (in BuildPSOs or at
\* Close); the destructor flushed, the members are destroyed, the process ends.
C19_Witness ==
    /\ initResult = "throw"
    /\ pc = "exit"
    /\ mPassCbvOffset = NumRitems * gNumFrameResources
    /\ mCurrentFence = 1
    /\ completed = 1
    /\ slotHist = <<>>

\* A step of OnMouseMove.
MoveStep == mouseEvents' # mouseEvents /\ lastMessage'.kind = "move"

\* mPhi lies in [0.1, pi - 0.1] and mRadius in [5, 150]. An angle is
\* a * (pi/720) + b * 0.1 and 0.1 rad is 22.918... units of pi/720, so the
\* interval is 22.918... to 697.081... units: a from 23 to 697 when b = 0,
\* from 0 to 674 when b = 1, from 46 to 720 when b = -1. The radius is kept
\* in units of 0.05.
CameraClamped ==
    /\ \/ (mPhi.b = 0 /\ mPhi.a >= 23 /\ mPhi.a <= 697)
       \/ (mPhi.b = 1 /\ mPhi.a >= 0 /\ mPhi.a <= 674)
       \/ (mPhi.b = -1 /\ mPhi.a >= 46 /\ mPhi.a <= 720)
    /\ mRadius.u >= 100
    /\ mRadius.u <= 3000

\* Which of the camera's fields a pointer move changes, by the buttons held.
MoveChangesOnlyWhatItsButtonSays ==
    MoveStep =>
        /\ MK_LBUTTON \in lastMessage'.btnState => UNCHANGED <<mRadius, pc, ring>>
        /\ (MK_RBUTTON \in lastMessage'.btnState
               /\ MK_LBUTTON \notin lastMessage'.btnState)
             => UNCHANGED <<mTheta, mPhi, pc, ring>>
        /\ lastMessage'.btnState = {} => UNCHANGED <<mTheta, mPhi, mRadius, pc, ring>>

\* C20 as stated: mPhi in [0.1, pi - 0.1], mRadius in [5, 150]; a move with
\* the left button held changes mTheta and mPhi and nothing else, a move with
\* only the right button held changes mRadius and nothing else, and only a
\* move with neither changes mLastMousePos alone.
C20_Original ==
    /\ []CameraClamped
    /\ [][/\ MoveChangesOnlyWhatItsButtonSays
          /\ (MoveStep /\ lastMessage'.btnState # {}) => UNCHANGED mLastMousePos]_vars

\* C20: after any sequence of pointer messages mPhi is in [0.1, pi - 0.1] and
\* mRadius in [5, 150]; a move with the left button held leaves mRadius
\* unchanged, a move with only the right button held leaves mTheta and mPhi
\* unchanged, a move with neither leaves all three unchanged, and every move,
\* whatever the buttons, stores its position in mLastMousePos and changes
\* nothing outside the camera.
C20_CameraClamps ==
    /\ []CameraClamped
    /\ [][/\ MoveChangesOnlyWhatItsButtonSays
          /\ MoveStep => mLastMousePos'.stored]_vars

\* Three moves: the left button dragged far down (mPhi clamped at pi - 0.1),
\* then the right button dragged far right (mRadius clamped at 150), then a
\* move with no button, which stored its position only.
C20_Witness ==
    /\ mouseEvents = 3
    /\ lastMessage = Message("move", {})
    /\ mPhi = PhiMax
    /\ mRadius = RadiusMax
    /\ mTheta # InitTheta
    /\ mLastMousePos = [x |-> 200, y |-> 200, stored |-> TRUE]


\* The '1' key is held: bit 15 of the key state is set.
KeyHeld == \E keyState \in keyStates : keyState >= KEY_DOWN_BIT

\* What Draw leaves in the command list, the queue and the fence, written
\* without mIsWireframe.
DrawApartFromPipeline ==
    LET draws == Binding(mCurrFrameResourceIndex)
        list == [alloc |-> mCurrFrameResource, pso |-> "any", draws |-> draws,
                 closed |-> TRUE]
    IN /\ [mCommandList' EXCEPT !.pso = "any"] = list
       /\ queue' = queue \o <<ListEntry(list), PresentEntry,
                               SignalEntry(mCurrentFence + 1)>>
       /\ bound' = draws
       /\ mCurrentFence' = mCurrentFence + 1
       /\ mFrameResources' =
              [mFrameResources EXCEPT ![mCurrFrameResource + 1].Fence = mCurrentFence + 1]
       /\ UNCHANGED <<mAllRitems, mOpaqueRitems, mCurrFrameResourceIndex, completed,
                      mPassCbvOffset, mCbvHeap, mIsWireframe, mCurrFrameResource>>

\* C21: every Update sets the wireframe flag to whether the '1' key is held at
\* that moment, whatever the flag was before, and no other step changes the
\* flag; Draw records the frame with the wireframe pipeline state if the flag
\* is set and with the solid one if not, and everything else Draw does is the
\* same for both.
C21_WireframeFollowsKey ==
    [][/\ UpdateEnters => (mIsWireframe' <=> KeyHeld)
       /\ ~UpdateEnters => mIsWireframe' = mIsWireframe
       /\ DrawStep =>
             /\ mCommandList'.pso =
                    IF mIsWireframe THEN "opaque_wireframe" ELSE "opaque"
             /\ DrawApartFromPipeline]_vars

\* The previous frame was recorded in wireframe; the key has been released,
\* leaving only the pressed-since bit, and this frame's Update cleared the flag.
C21_Witness ==
    /\ pc = "draw"
    /\ Len(slotHist) >= 2
    /\ mCommandList.pso = "opaque_wireframe"
    /\ keyStates = {1}
    /\ ~mIsWireframe


\* The Signal entries of the queue q, in order.
Signals(q) == SelectSeq(q, LAMBDA e : e.kind = "signal")

\* C22: a Draw raises mCurrentFence by one, leaves the frame resource it drew
\* with stamped with the raised value, appends to the command queue one Signal,
\* last and for that same value, and leaves the stamp of every other frame
\* resource as it was.
C22_DrawStampsAndSignals ==
    [][DrawStep =>
          /\ mCurrentFence' = mCurrentFence + 1
          /\ mFrameResources'[mCurrFrameResourceIndex + 1].Fence = mCurrentFence'
          /\ queue' # <<>>
          /\ queue'[Len(queue')].kind = "signal"
          /\ queue'[Len(queue')].value = mCurrentFence'
          /\ Len(Signals(queue')) = Len(Signals(queue)) + 1
          /\ \A f \in Slots \ {mCurrFrameResourceIndex} :
                mFrameResources'[f + 1].Fence = mFrameResources[f + 1].Fence]_vars

\* The fourth frame has been drawn: its frame resource carries the current
\* fence value, which the last queue entry signals, and the other two carry
\* earlier values.
C22_Witness ==
    /\ pc = "update"
    /\ Len(slotHist) = 4
    /\ queue # <<>>
    /\ queue[Len(queue)] = SignalEntry(mCurrentFence)
    /\ mFrameResources[mCurrFrameResourceIndex + 1].Fence = mCurrentFence
    /\ \A f \in Slots \ {mCurrFrameResourceIndex} :
          /\ mFrameResources[f + 1].Fence > 0
          /\ mFrameResources[f + 1].Fence < mCurrentFence


\* The command list entry at position j of the queue carries the draw calls
\* of frame resource f: its allocator, its pass table and one object table per
\* opaque render item.
HoldsDrawsOf(j, f) ==
    /\ queue[j].kind = "list"
    /\ queue[j].alloc = f
    /\ queue[j].draws = Binding(f)
    /\ Len(queue[j].draws.obj) = Len(mOpaqueRitems)

\* C23: Draw makes its calls in the order record (reset, draw calls, close),
\* submit, present, stamp, signal: the queue gains, in this order, the closed
\* command list with every draw call of the active frame resource, the
\* present and the signal of the value just stamped; and in every state a
\* queued signal for the stamp of frame resource f has f's command list
\* before it in the queue, with the present between them.
C23_DrawOrder ==
    /\ [][DrawStep =>
             /\ drawCalls' = <<"Reset", "DrawRenderItems", "Close",
                               "ExecuteCommandLists", "Present", "Fence", "Signal">>
             /\ mCommandList'.closed
             /\ Len(queue') = Len(queue) + 3
             /\ SubSeq(queue', 1, Len(queue)) = queue
             /\ queue'[Len(queue) + 1] = ListEntry(mCommandList')
             /\ queue'[Len(queue) + 1].alloc = mCurrFrameResourceIndex
             /\ queue'[Len(queue) + 1].draws = Binding(mCurrFrameResourceIndex)
             /\ queue'[Len(queue) + 2].kind = "present"
             /\ queue'[Len(queue) + 3].kind = "signal"
             /\ queue'[Len(queue) + 3].value =
                    mFrameResources'[mCurrFrameResourceIndex + 1].Fence]_vars
    /\ [](Running =>
             \A i \in DOMAIN queue, f \in Slots :
                 (/\ queue[i].kind = "signal"
                  /\ queue[i].value = mFrameResources[f + 1].Fence)
                 => /\ i >= 3
                    /\ HoldsDrawsOf(i - 2, f)
                    /\ queue[i - 1].kind = "present")

\* Two frames are in the queue, each as command list, present, signal, and
\* the last Draw made its seven calls.
C23_Witness ==
    /\ pc = "update"
    /\ Len(queue) = 6
    /\ Len(drawCalls) = 7
    /\ HoldsDrawsOf(1, queue[1].alloc)
    /\ HoldsDrawsOf(4, mCurrFrameResourceIndex)
    /\ queue[1].alloc # queue[4].alloc
    /\ queue[6] = SignalEntry(mFrameResources[mCurrFrameResourceIndex + 1].Fence)


\* How many times element i occurs in the sequence of written elements.
WriteCount(writes, i) == Cardinality({w \in DOMAIN writes : writes[w] = i})

\* C24: the part of Update that writes the constant buffers does, for every
\* render item whose NumFramesDirty is above 0, one write, of the transpose
\* of its World, to the element ObjCBIndex of the active frame resource's
\* object buffer, and lowers its NumFramesDirty by one, changing nothing else
\* of the item; an item whose NumFramesDirty is 0 is not written, keeps its
\* element of the buffer and is not changed; and NumFramesDirty is within
\* 0 .. gNumFrameResources in every state.
C24_UpdateObjectCBs ==
    /\ [][UpdateReturns =>
             \A k \in DOMAIN mAllRitems :
                 LET e == mAllRitems[k]
                     before == mFrameResources[mCurrFrameResourceIndex' + 1].ObjectCB
                     after == mFrameResources'[mCurrFrameResourceIndex' + 1].ObjectCB
                 IN IF e.NumFramesDirty > 0
                    THEN /\ WriteCount(upd'.objWrites, e.ObjCBIndex) = 1
                         /\ after[e.ObjCBIndex + 1] = XMMatrixTranspose(e.World)
                         /\ mAllRitems'[k] =
                                [e EXCEPT !.NumFramesDirty = e.NumFramesDirty - 1]
                    ELSE /\ WriteCount(upd'.objWrites, e.ObjCBIndex) = 0
                         /\ after[e.ObjCBIndex + 1] = before[e.ObjCBIndex + 1]
                         /\ mAllRitems'[k] = e]_vars
    /\ [](\A k \in DOMAIN mAllRitems :
             mAllRitems[k].NumFramesDirty \in 0 .. gNumFrameResources)

\* An Update has just written one item, changed after the scene had become
\* clean and now at gNumFrameResources - 1, and skipped another that is clean.
C24_Witness ==
    /\ pc = "draw"
    /\ upd.wrote
    /\ Len(upd.objWrites) = 1
    /\ \E k, j \in DOMAIN mAllRitems :
          /\ mAllRitems[k].NumFramesDirty = gNumFrameResources - 1
          /\ upd.objWrites = <<mAllRitems[k].ObjCBIndex>>
          /\ Cached(mCurrFrameResourceIndex, k) = XMMatrixTranspose(mAllRitems[k].World)
          /\ mAllRitems[k].World # Identity4x4
          /\ mAllRitems[j].NumFramesDirty = 0
          /\ sinceChange[j] >= gNumFrameResources


\* C25: before Initialize the descriptor heap has no entry; once Initialize
\* has run, the heap has gNumFrameResources * (object count + 1) entries, each
\* written by exactly one CreateConstantBufferView call and none of the calls
\* lost beyond the heap; and no later step (Update, Draw, the GPU, OnResize,
\* a pointer handler) changes the heap.
C25_HeapPopulatedOnce ==
    /\ [](pc = "constructed" => mCbvHeap = EmptyHeap)
    /\ [](Running =>
             /\ Len(mCbvHeap.at) = gNumFrameResources * (Len(mOpaqueRitems) + 1)
             /\ DOMAIN mCbvHeap.n = DOMAIN mCbvHeap.at
             /\ mCbvHeap.lost = 0
             /\ \A j \in DOMAIN mCbvHeap.at :
                   /\ mCbvHeap.n[j] = 1
                   /\ mCbvHeap.at[j] # NoDescriptor)
    /\ [][pc # "constructed" => mCbvHeap' = mCbvHeap]_vars

\* Frames have been drawn, the window has been resized, and the heap of the
\* two-item scene holds its nine descriptors, each written once.
C25_Witness ==
    /\ pc = "update"
    /\ Len(slotHist) >= 2
    /\ lastMessage = Message("resize", {})
    /\ bound # NoBinding
    /\ Len(mCbvHeap.at) = gNumFrameResources * (NumRitems + 1)
    /\ \A j \in DOMAIN mCbvHeap.n : mCbvHeap.n[j] = 1


\* The command lists in the queue that were recorded with the allocator of
\* frame resource f.
PendingListsOf(f) ==
    {i \in DOMAIN queue : queue[i].kind = "list" /\ queue[i].alloc = f}

\* C26: when Draw resets the command allocator of the active frame resource,
\* the GPU has executed every command list recorded with it: none is left in
\* the queue and the completed fence value has reached the frame resource's
\* stamp; the Update before this Draw activated the same frame resource and
\* went past its fence wait; and the command list is recorded anew with that
\* allocator.
C26_AllocatorResetAfterWait ==
    [][DrawStep =>
          /\ PendingListsOf(mCurrFrameResource) = {}
          /\ completed >= mFrameResources[mCurrFrameResource + 1].Fence
          /\ upd.slot = mCurrFrameResource
          /\ upd.wrote
          /\ upd.writeDone >= upd.entryFence
          /\ mCommandList'.alloc = mCurrFrameResource]_vars

\* Draw has reset an allocator used three frames before, after an Update that
\* had to wait for the fence; the two frames in between are still queued.
C26_Witness ==
    /\ pc = "update"
    /\ Len(slotHist) >= gNumFrameResources + 1
    /\ upd.blocked
    /\ upd.entryFence > 0
    /\ mCommandList.alloc = upd.slot
    /\ Cardinality(PendingListsOf(upd.slot)) = 1
    /\ Len(queue) = 3 * gNumFrameResources


\* Initialize returns true.
InitializeReturnsTrue == pc = "return" /\ pc' = "update"

\* C27: when Initialize starts its flush the initialization command list,
\* closed, is the one entry of the queue; when it returns true the queue is
\* empty and the fence has reached the value the flush signalled; frame
\* resources exist only once the render items do and have one object element
\* per render item; the descriptor heap exists only once the frame resources
\* do and has gNumFrameResources * (item count + 1) entries; and while frames
\* run no initialization command list is in the queue.
C27_InitializeDrainsAndOrders ==
    /\ [](pc = "FlushCommandQueue" => queue = <<ListEntry(InitCommandList)>>)
    /\ [][InitializeReturnsTrue =>
             /\ queue = <<>>
             /\ mCurrentFence >= 1
             /\ completed = mCurrentFence
             /\ mCommandList = InitCommandList]_vars
    /\ [](mFrameResources # <<>> =>
             /\ mAllRitems # <<>>
             /\ \A f \in DOMAIN mFrameResources :
                   Len(mFrameResources[f].ObjectCB) = Len(mAllRitems))
    /\ [](mCbvHeap # EmptyHeap =>
             /\ Len(mFrameResources) = gNumFrameResources
             /\ mOpaqueRitems # <<>>
             /\ Len(mCbvHeap.at) = gNumFrameResources * (Len(mOpaqueRitems) + 1))
    /\ [](Running =>
             /\ initResult = "ok"
             /\ \A i \in DOMAIN queue : queue[i].alloc # mDirectCmdListAlloc)

\* Initialize has returned true and no frame has run yet: everything is
\* built, the initialization commands are executed and the queue is empty.
C27_Witness ==
    /\ pc = "update"
    /\ slotHist = <<>>
    /\ initResult = "ok"
    /\ queue = <<>>
    /\ completed = 1
    /\ mCurrentFence = 1
    /\ mCommandList = InitCommandList
    /\ Len(mAllRitems) = NumRitems
    /\ Len(mFrameResources) = gNumFrameResources
    /\ Len(mCbvHeap.at) = gNumFrameResources * (NumRitems + 1)


\* The descriptor at offset `offset` of the heap.
DescriptorAt(offset) == mCbvHeap.at[offset + 1]

\* C28: the object table Draw binds for an opaque render item is the heap
\* entry that views the element ObjCBIndex of the object buffer of the active
\* frame resource, the frame resource the Update of this frame wrote to, and
\* if that Update wrote the item, the viewed element holds the transpose of
\* the item's World; two items are bound to different entries that view
\* different elements; the pass table bound is the entry that views the pass
\* buffer of the active frame resource, which that Update wrote; and the
\* command list submitted carries these tables.
C28_BindingMatchesUpdate ==
    [][DrawStep =>
          LET f == mCurrFrameResourceIndex
              item(k) == mAllRitems[mOpaqueRitems[k]]
              view(k) == DescriptorAt(bound'.obj[k])
          IN /\ upd.slot = f
             /\ upd.wrote
             /\ DOMAIN bound'.obj = DOMAIN mOpaqueRitems
             /\ \A k \in DOMAIN mOpaqueRitems :
                   /\ view(k).kind = "object"
                   /\ view(k).frame = f
                   /\ view(k).elem = item(k).ObjCBIndex
                   /\ WriteCount(upd.objWrites, item(k).ObjCBIndex) = 1
                      => mFrameResources[view(k).frame + 1].ObjectCB[view(k).elem + 1]
                            = XMMatrixTranspose(item(k).World)
                   /\ \A j \in DOMAIN mOpaqueRitems :
                         j # k => /\ bound'.obj[j] # bound'.obj[k]
                                  /\ view(j).elem # view(k).elem
             /\ DescriptorAt(bound'.pass).kind = "pass"
             /\ DescriptorAt(bound'.pass).frame = f
             /\ upd.passWrites = 1
             /\ mFrameResources[f + 1].PassCB = MainPassCB(mEyePos, Len(slotHist))
             /\ queue'[Len(queue) + 1].draws = bound']_vars

\* The third frame has been drawn with frame resource 0: both items were
\* written by its Update, one of them with a World that is not the identity,
\* and are bound to the entries viewing elements 0 and 1 of that frame resource.
C28_Witness ==
    /\ pc = "update"
    /\ Len(slotHist) = gNumFrameResources
    /\ mCurrFrameResourceIndex = 0
    /\ upd.slot = 0
    /\ Len(upd.objWrites) = NumRitems
    /\ \A k \in DOMAIN mOpaqueRitems :
          DescriptorAt(bound.obj[k]) = ObjDescriptor(0, mAllRitems[k].ObjCBIndex)
    /\ DescriptorAt(bound.pass) = PassDescriptor(0)
    /\ \E k \in DOMAIN mAllRitems :
          /\ mAllRitems[k].World # Identity4x4
          /\ Cached(0, k) = XMMatrixTranspose(mAllRitems[k].World)


\* The frames submitted whose command list the GPU has not executed yet.
FramesInFlight ==
    Cardinality({i \in DOMAIN queue : queue[i].kind = "list" /\ queue[i].alloc \in Slots})

\* C29: while frames run, the frames in flight are those of the frame
\* resources whose stamp the completed fence value has not reached; when
\* Update has passed its wait there are at most gNumFrameResources - 1 of
\* them, and at any other point of the frame loop, after a Draw in particular,
\* at most gNumFrameResources.
C29_FramesAhead ==
    Running =>
        /\ FramesInFlight =
               Cardinality({f \in Slots : mFrameResources[f + 1].Fence > completed})
        /\ pc = "draw" => FramesInFlight <= gNumFrameResources - 1
        /\ FramesInFlight <= gNumFrameResources

\* After an Update that had to wait and the Draw that followed it, the
\* application is gNumFrameResources frames ahead of the GPU.
C29_Witness ==
    /\ pc = "update"
    /\ upd.blocked
    /\ FramesInFlight = gNumFrameResources
    /\ completed = mCurrentFence - gNumFrameResources


\* The stamp of frame resource f.
Stamp(frs, f) == frs[f + 1].Fence

\* The ring of frame resources exists.
RingBuilt(frs) == Len(frs) = gNumFrameResources

\* C30: whenever the frame resources exist, no two of them carry the same
\* non-zero stamp and no stamp exceeds mCurrentFence; no step lowers a stamp;
\* a Draw leaves the frame resource it drew with holding the largest stamp;
\* and the frame resource an Update activates holds, at that moment, the
\* smallest stamp of all (0 if some frame resource was never used).
C30_StampsDistinctMonotone ==
    /\ [](RingBuilt(mFrameResources) =>
             /\ \A f, g \in Slots :
                   (f # g /\ Stamp(mFrameResources, f) # 0)
                   => Stamp(mFrameResources, f) # Stamp(mFrameResources, g)
             /\ \A f \in Slots : Stamp(mFrameResources, f) <= mCurrentFence)
    /\ [][(RingBuilt(mFrameResources) /\ RingBuilt(mFrameResources')) =>
             \A f \in Slots :
                 Stamp(mFrameResources', f) >= Stamp(mFrameResources, f)]_vars
    /\ [][DrawStep =>
             \A f \in Slots :
                 Stamp(mFrameResources', f)
                     <= Stamp(mFrameResources', mCurrFrameResourceIndex)]_vars
    /\ [][UpdateEnters =>
             \A f \in Slots :
                 Stamp(mFrameResources, mCurrFrameResourceIndex')
                     <= Stamp(mFrameResources, f)]_vars

\* Every frame resource has been used: after the fourth Draw the stamps are
\* three different non-zero values, the active frame resource holds the
\* largest, mCurrentFence, and the one after it in the ring the smallest.
C30_Witness ==
    /\ pc = "update"
    /\ Len(slotHist) = gNumFrameResources + 1
    /\ \A f \in Slots : Stamp(mFrameResources, f) > 0
    /\ Cardinality({Stamp(mFrameResources, f) : f \in Slots}) = gNumFrameResources
    /\ Stamp(mFrameResources, mCurrFrameResourceIndex) = mCurrentFence
    /\ \A f \in Slots :
          Stamp(mFrameResources, (mCurrFrameResourceIndex + 1) % gNumFrameResources)
              <= Stamp(mFrameResources, f)


\* The ObjCBIndex values of the render items.
ObjCBIndices == {mAllRitems[k].ObjCBIndex : k \in DOMAIN mAllRitems}

\* C31: once BuildRenderItems has run, the ObjCBIndex values of the render
\* items are exactly 0 .. count - 1, no two items share one, and mOpaqueRitems
\* has as many entries as mAllRitems; and while frames run, every frame
\* resource's object buffer has count elements, every element index Update
\* wrote is below that, and every object descriptor offset Draw bound is at
\* least 0 and below mPassCbvOffset, where the pass descriptors start.
C31_ObjCBIndexDense ==
    /\ mAllRitems # <<>> =>
          /\ ObjCBIndices = 0 .. Len(mAllRitems) - 1
          /\ \A k, j \in DOMAIN mAllRitems :
                k # j => mAllRitems[k].ObjCBIndex # mAllRitems[j].ObjCBIndex
          /\ Len(mOpaqueRitems) = Len(mAllRitems)
    /\ Running =>
          /\ \A f \in Slots :
                Len(mFrameResources[f + 1].ObjectCB) = Len(mAllRitems)
          /\ \A w \in DOMAIN upd.objWrites :
                /\ upd.objWrites[w] >= 0
                /\ upd.objWrites[w] < Len(mFrameResources[upd.slot + 1].ObjectCB)
          /\ \A k \in DOMAIN bound.obj :
                /\ bound.obj[k] >= 0
                /\ bound.obj[k] < mPassCbvOffset

\* The second frame, on the last frame resource, has been drawn: Update wrote
\* every item, and the last item is bound to the descriptor just below the
\* pass descriptors.
C31_Witness ==
    /\ pc = "update"
    /\ mCurrFrameResourceIndex = gNumFrameResources - 1
    /\ Len(upd.objWrites) = NumRitems
    /\ upd.objWrites[NumRitems] = NumRitems - 1
    /\ Len(bound.obj) = NumRitems
    /\ bound.obj[NumRitems] = mPassCbvOffset - 1


\* Update is blocked in its fence wait.
Waiting == pc = "wait"

\* The Signal of the fence value is in the command queue.
SignalEnqueued(value) == \E i \in DOMAIN queue : queue[i] = SignalEntry(value)

\* Frame n has been completed: its Update returned and its Draw ran.
FrameDone(n) == pc = "update" /\ Len(slotHist) = n

\* C32: with a GPU that completes every signalled fence value and a thread
\* that keeps running, every fence wait of Update returns, every Update
\* returns, every Draw returns and each of the frames is completed; and
\* whenever Update waits, the value it waits for is at most mCurrentFence and
\* either the fence already reached it or its Signal is in the command queue.
C32_FenceWaitReturns ==
    /\ [](Waiting => /\ CurrFence <= mCurrentFence
                     /\ completed >= CurrFence \/ SignalEnqueued(CurrFence))
    /\ Waiting ~> (pc = "draw")
    /\ (pc = "update" /\ Len(slotHist) < MaxFrames) ~> (pc = "draw")
    /\ (pc = "draw") ~> (pc = "update")
    /\ \A n \in 1 .. MaxFrames : <>FrameDone(n)

\* The last frame has been completed, and its Update had to wait for the
\* fence: the value it waited for is completed.
C32_Witness ==
    /\ FrameDone(MaxFrames)
    /\ upd.blocked
    /\ upd.entryDone < upd.entryFence
    /\ completed >= upd.entryFence

====
